---- MODULE Spec2Model ----
(***************************************************************************)
(* Model of the query-plan normalisation of OLAPBench:                     *)
(*   src/queryplan/parsers/clickhouseparser.py  (ClickHouseParser)         *)
(*   src/queryplan/parsers/sqlserverparser.py   (SQLServerParser)          *)
(*   src/queryplan/queryoperator.py             (operator taxonomy, fill)  *)
(*                                                                         *)
(* A raw plan payload is assembled node by node, then handed to the        *)
(* parser of its engine; the parse result is kept in the state.            *)
(*                                                                         *)
(* Python values are tagged records: [t |-> "none"], [t |-> "int", v],     *)
(* [t |-> "str", v] with v a string,                                        *)
(* [t |-> "float", v] with v the float's repr ("2.5", "inf", "nan"),       *)
(* [t |-> "dict", v] with v a function from keys to values,                *)
(* [t |-> "list", v] with v a sequence of values.                          *)
(***************************************************************************)
EXTENDS Integers, Sequences, FiniteSets, TLC

(***************************************************************************)
(* Bounds of the model.                                                    *)
(***************************************************************************)
\* largest number of raw operators (JSON objects, RelOp elements, rows) of a payload
MaxNodes == 3

(***************************************************************************)
(* Python strings are TLA+ strings; Len, SubSeq and \o apply to them.      *)
(* The str methods the parsers use:                                        *)
(***************************************************************************)
UpperAlpha == "ABCDEFGHIJKLMNOPQRSTUVWXYZ"

LowerAlpha == "abcdefghijklmnopqrstuvwxyz"

CharAt(s, i) == SubSeq(s, i, i)

\* the lower-case letter of each upper-case letter
LowerTable == [c \in {CharAt(UpperAlpha, i) : i \in 1..Len(UpperAlpha)} |->
                 CharAt(LowerAlpha, CHOOSE i \in 1..Len(UpperAlpha) : CharAt(UpperAlpha, i) = c)]

LowerChar(c) == IF c \in DOMAIN LowerTable THEN LowerTable[c] ELSE c

\* str.lower()
lower_[s \in STRING] ==
  IF Len(s) = 0 THEN ""
  ELSE LowerChar(CharAt(s, 1)) \o lower_[SubSeq(s, 2, Len(s))]

lower(s) == lower_[s]

\* str.startswith(p)
startswith(s, p) == Len(s) >= Len(p) /\ SubSeq(s, 1, Len(p)) = p

\* p in s
contains(s, p) == \E i \in 0..(Len(s) - Len(p)) : SubSeq(s, i + 1, i + Len(p)) = p

Digits == "0123456789"

IsDigit(c) == \E i \in 1..Len(Digits) : CharAt(Digits, i) = c

DigitVal(c) == (CHOOSE i \in 1..Len(Digits) : CharAt(Digits, i) = c) - 1

IsDigitString(s) == Len(s) > 0 /\ \A i \in 1..Len(s) : IsDigit(CharAt(s, i))

RECURSIVE DigitsToNat(_)
DigitsToNat(s) ==
  IF Len(s) = 0 THEN 0
  ELSE 10 * DigitsToNat(SubSeq(s, 1, Len(s) - 1)) + DigitVal(CharAt(s, Len(s)))

RECURSIVE NatToDigits(_)
NatToDigits(n) ==
  IF n < 10 THEN CharAt(Digits, n + 1)
  ELSE NatToDigits(n \div 10) \o CharAt(Digits, (n % 10) + 1)

(***************************************************************************)
(* Python values.                                                          *)
(***************************************************************************)
None == [t |-> "none"]

IntV(n) == [t |-> "int", v |-> n]

StrV(s) == [t |-> "str", v |-> s]

FloatV(s) == [t |-> "float", v |-> s]

DictV(f) == [t |-> "dict", v |-> f]

ListV(q) == [t |-> "list", v |-> q]

EmptyDict == DictV([k \in {} |-> None])

IsNone(x) == x.t = "none"

IsInt(x) == x.t = "int"

IsStr(x) == x.t = "str"

IsFloat(x) == x.t = "float"

IsDict(x) == x.t = "dict"

IsList(x) == x.t = "list"

\* truth value of a Python object (bool(x))
Truthy(x) ==
  CASE x.t = "none" -> FALSE
    [] x.t = "int"  -> x.v # 0
    [] x.t = "str"  -> Len(x.v) > 0
    [] x.t = "float" -> x.v \notin {"0.0", "-0.0"}
    [] x.t = "dict" -> DOMAIN x.v # {}
    [] x.t = "list" -> Len(x.v) > 0
    [] OTHER        -> TRUE

\* a or b
Or(a, b) == IF Truthy(a) THEN a ELSE b

\* key in d
HasKey(d, k) == k \in DOMAIN d.v

\* d.get(k, default)
GetOr(d, k, default) == IF HasKey(d, k) THEN d.v[k] ELSE default

\* d.get(k)
Get(d, k) == GetOr(d, k, None)

\* str(x), for the values a raw operator name can hold
PyStr(x) ==
  CASE x.t = "str"  -> x.v
    [] x.t = "none" -> "None"
    [] x.t = "int"  -> IF x.v < 0 THEN "-" \o NatToDigits(0 - x.v) ELSE NatToDigits(x.v)
    [] OTHER        -> "?"

\* the reprs of the floats that are no finite number
Infinities == {"inf", "+inf", "-inf", "infinity", "+infinity", "-infinity"}

\* what a conversion to int leaves: the integer, or the exception e
Converted(n) == [ok |-> TRUE, v |-> n, err |-> ""]

NotConverted(e) == [ok |-> FALSE, v |-> 0, err |-> e]

\* int(float(s)) for a string s: digits with an optional sign and an optional
\* fraction truncate to the integer part, an infinity raises OverflowError,
\* anything else ValueError
PyIntOfFloatStr(s) ==
  LET Of(neg, body, dots) ==
        LET ip == IF dots = {} THEN body
                  ELSE SubSeq(body, 1, (CHOOSE i \in dots : TRUE) - 1)
            fp == IF dots = {} THEN ""
                  ELSE SubSeq(body, (CHOOSE i \in dots : TRUE) + 1, Len(body))
        IN  IF /\ Cardinality(dots) <= 1
               /\ Len(ip) + Len(fp) > 0
               /\ \A i \in 1..Len(ip) : IsDigit(CharAt(ip, i))
               /\ \A i \in 1..Len(fp) : IsDigit(CharAt(fp, i))
              THEN Converted(IF neg THEN 0 - DigitsToNat(ip) ELSE DigitsToNat(ip))
              ELSE NotConverted("ValueError")
      Signed(neg, body) == Of(neg, body, {i \in 1..Len(body) : CharAt(body, i) = "."})
  IN  IF lower(s) \in Infinities THEN NotConverted("OverflowError")
      ELSE IF Len(s) > 0 /\ CharAt(s, 1) = "-" THEN Signed(TRUE, SubSeq(s, 2, Len(s)))
      ELSE Signed(FALSE, s)

\* int(x): TypeError for None, ValueError for a string that is no integer
\* literal, a float as int(float(repr))
int(x) ==
  CASE x.t = "int" -> Converted(x.v)
    [] x.t = "str" ->
         IF IsDigitString(x.v) THEN Converted(DigitsToNat(x.v))
         ELSE IF Len(x.v) > 1 /\ CharAt(x.v, 1) = "-" /\ IsDigitString(SubSeq(x.v, 2, Len(x.v)))
           THEN Converted(0 - DigitsToNat(SubSeq(x.v, 2, Len(x.v))))
         ELSE NotConverted("ValueError")
    [] x.t = "float" -> PyIntOfFloatStr(x.v)
    [] OTHER -> NotConverted("TypeError")

(***************************************************************************)
(* Operator taxonomy (queryoperator.py): the constructors.  A field that   *)
(* no fill variant modelled below assigns keeps its constructor value.     *)
(***************************************************************************)
Result(operator_id) == [operator_type |-> "Result", operator_id |-> operator_id]

TableScan(operator_id) ==
  [operator_type |-> "TableScan", operator_id |-> operator_id,
   table_name |-> None, table_size |-> None, type |-> None]

Select(operator_id) == [operator_type |-> "Select", operator_id |-> operator_id]

Map(operator_id) == [operator_type |-> "Map", operator_id |-> operator_id]

Sort(operator_id) ==
  [operator_type |-> "Sort", operator_id |-> operator_id, limit |-> None]

GroupBy(operator_id) ==
  [operator_type |-> "GroupBy", operator_id |-> operator_id, method |-> None]

Join(operator_id) ==
  [operator_type |-> "Join", operator_id |-> operator_id, type |-> None, method |-> None]

SetOperation(operator_id) ==
  [operator_type |-> "SetOperation", operator_id |-> operator_id, type |-> None, active |-> TRUE]

ArrayUnnest(operator_id) == [operator_type |-> "ArrayUnnest", operator_id |-> operator_id]

\* a CustomOperator that keeps its name in lower case
CustomOperator_lowercase(name, operator_id) ==
  [operator_type |-> "CustomOperator", operator_id |-> operator_id,
   name |-> StrV(lower(PyStr(name))), limit |-> None]

CustomOperator(name, operator_id) ==
  [operator_type |-> "CustomOperator", operator_id |-> operator_id,
   name |-> name, limit |-> None]

\* try: int(limit_val) if limit_val is not None else None / except: limit_val
LimitOf(limit_val) ==
  LET Tried(r) == IF r.ok THEN IntV(r.v) ELSE limit_val
  IN  IF IsNone(limit_val) THEN None ELSE Tried(int(limit_val))

\* plan.get("Limit") or plan.get("limit") or plan.get("rows_limit") or plan.get("RowsRead")
ClickHouseLimitVal(plan) ==
  Or(Or(Or(Get(plan, "Limit"), Get(plan, "limit")), Get(plan, "rows_limit")), Get(plan, "RowsRead"))

\* Sort.fill
Sort_fill(op, plan, dbms_type) ==
  CASE dbms_type = "ClickHouse" -> [op EXCEPT !.limit = LimitOf(ClickHouseLimitVal(plan))]
    [] dbms_type = "SQLServer"  -> [op EXCEPT !.limit = LimitOf(Get(plan, "limit"))]
    [] OTHER -> op

\* CustomOperator.fill
CustomOperator_fill(op, plan, dbms_type) ==
  LET a == IF dbms_type = "ClickHouse" /\ IsStr(op.name) /\ op.name.v = "Limit"
             THEN [op EXCEPT !.limit = LimitOf(ClickHouseLimitVal(plan))]
             ELSE op
  IN  IF dbms_type = "SQLServer" /\ lower(a.name.v) = "top"
        THEN [a EXCEPT !.limit = LimitOf(Get(plan, "limit"))]
        ELSE a

\* GroupBy.fill
GroupBy_fill(op, plan, dbms_type) ==
  CASE dbms_type = "ClickHouse" -> [op EXCEPT !.method = Or(Get(plan, "method"), Get(plan, "Method"))]
    [] dbms_type = "SQLServer"  -> [op EXCEPT !.method = Get(plan, "agg_method")]
    [] OTHER -> op

\* Join.fill, the ClickHouse and SQL Server branches
Join_fill(op, plan, dbms_type) ==
  CASE dbms_type = "ClickHouse" ->
         LET description == lower(PyStr(GetOr(plan, "Description", StrV(""))))
             join_type   == GetOr(plan, "Join", GetOr(plan, "join_type", Get(plan, "Type")))
             type0       == IF IsStr(join_type) THEN StrV(lower(join_type.v)) ELSE op.type
             type1       ==
               IF ~IsNone(type0) THEN type0
               ELSE IF contains(description, "left")  THEN StrV("leftouter")
               ELSE IF contains(description, "right") THEN StrV("rightouter")
               ELSE IF contains(description, "full")  THEN StrV("fullouter")
               ELSE IF contains(description, "semi")  THEN StrV("semi")
               ELSE IF contains(description, "anti")  THEN StrV("anti")
               ELSE IF contains(description, "cross") THEN StrV("cross")
               ELSE IF contains(description, "inner") THEN StrV("inner")
               ELSE IF Len(description) > 0           THEN StrV("inner")
               ELSE type0
             algorithm   == Or(Get(plan, "Algorithm"), Get(plan, "algorithm"))
             method1     ==
               IF ~IsStr(algorithm) THEN op.method
               ELSE IF contains(lower(algorithm.v), "hash")  THEN StrV("hash")
               ELSE IF contains(lower(algorithm.v), "merge") THEN StrV("merge")
               ELSE IF contains(lower(algorithm.v), "nested") \/ contains(lower(algorithm.v), "loop")
                 THEN StrV("nl")
               ELSE op.method
         IN  [op EXCEPT !.type = type1, !.method = method1]
    [] dbms_type = "SQLServer" ->
         [op EXCEPT !.type = GetOr(plan, "join_type", op.type),
                    !.method = GetOr(plan, "join_method", op.method)]
    [] OTHER -> op

\* s.split(".")
RECURSIVE SplitDots(_, _, _)
SplitDots(s, i, cur) ==
  IF i > Len(s) THEN <<cur>>
  ELSE IF CharAt(s, i) = "." THEN <<cur>> \o SplitDots(s, i + 1, "")
  ELSE SplitDots(s, i + 1, cur \o CharAt(s, i))

\* ".".join(parts)
RECURSIVE JoinDots(_)
JoinDots(parts) ==
  IF Len(parts) = 0 THEN ""
  ELSE IF Len(parts) = 1 THEN parts[1]
  ELSE parts[1] \o "." \o JoinDots(Tail(parts))

IsSpace(c) == c \in {" ", "\t", "\n", "\r"}

\* s.strip()
RECURSIVE strip(_)
strip(s) ==
  IF Len(s) = 0 THEN s
  ELSE IF IsSpace(CharAt(s, 1)) THEN strip(SubSeq(s, 2, Len(s)))
  ELSE IF IsSpace(CharAt(s, Len(s))) THEN strip(SubSeq(s, 1, Len(s) - 1))
  ELSE s

\* s.removeprefix(p)
removeprefix(s, p) == IF startswith(s, p) THEN SubSeq(s, Len(p) + 1, Len(s)) ELSE s

\* TableScan.fill, the ClickHouse and SQL Server branches
TableScan_fill(op, plan, dbms_type) ==
  CASE dbms_type = "ClickHouse" ->
         LET storage == Or(Or(Get(plan, "Storage"), Get(plan, "storage")), EmptyDict)
             n0 == IF IsDict(storage) THEN Get(storage, "Table") ELSE op.table_name
             n1 == IF ~Truthy(n0) THEN Get(plan, "Table") ELSE n0
             n2 == IF Truthy(n1) /\ IsStr(n1) /\ Len(SplitDots(n1.v, 1, "")) >= 3
                     THEN StrV(JoinDots(SubSeq(SplitDots(n1.v, 1, ""), 1, 3)))
                     ELSE n1
             description == Or(Get(plan, "Description"), Get(plan, "description"))
             n3 == IF ~Truthy(n2) /\ IsStr(description) /\ Len(strip(description.v)) > 0
                     THEN StrV(removeprefix(strip(description.v), "clickhouse."))
                     ELSE n2
         IN  [op EXCEPT !.table_name = n3]
    [] dbms_type = "SQLServer" ->
         LET obj == Get(plan, "object")
             table  == Or(Get(obj, "Table"), Get(obj, "table"))
             schema == Or(Get(obj, "Schema"), Get(obj, "schema"))
             db     == Or(Get(obj, "Database"), Get(obj, "database"))
             parts  == SelectSeq(<<db, schema, table>>, Truthy)
             n0 == IF IsDict(obj) THEN StrV(JoinDots([i \in 1..Len(parts) |-> parts[i].v]))
                   ELSE IF IsStr(obj) THEN obj
                   ELSE op.table_name
             n1 == IF ~Truthy(n0) THEN Get(plan, "Table") ELSE n0
             n2 == IF Truthy(n1) /\ IsStr(n1)
                     THEN StrV(SplitDots(n1.v, 1, "")[Len(SplitDots(n1.v, 1, ""))])
                     ELSE n1
         IN  [op EXCEPT !.table_name = n2]
    [] OTHER -> op

\* operator.fill(plan, dbms_type), dispatched on the operator's class
fill(op, plan, dbms_type) ==
  CASE op.operator_type = "TableScan"      -> TableScan_fill(op, plan, dbms_type)
    [] op.operator_type = "Sort"           -> Sort_fill(op, plan, dbms_type)
    [] op.operator_type = "CustomOperator" -> CustomOperator_fill(op, plan, dbms_type)
    [] op.operator_type = "GroupBy"        -> GroupBy_fill(op, plan, dbms_type)
    [] op.operator_type = "Join"           -> Join_fill(op, plan, dbms_type)
    [] OTHER -> op

\* s.replace(p, ""), for a non-empty p
RECURSIVE remove(_, _)
remove(s, p) ==
  IF Len(s) < Len(p) THEN s
  ELSE IF startswith(s, p) THEN remove(SubSeq(s, Len(p) + 1, Len(s)), p)
  ELSE CharAt(s, 1) \o remove(SubSeq(s, 2, Len(s)), p)

\* str.endswith(p)
endswith(s, p) == Len(s) >= Len(p) /\ SubSeq(s, Len(s) - Len(p) + 1, Len(s)) = p

\* what a call of fill leaves: the operator after it, or the exception
Returned(op) == [err |-> "", op |-> op]

FillRaised(e, op) == [err |-> e, op |-> op]

\* the engine tags of DBMSType
DBMSType == {"Umbra", "Postgres", "Hyper", "DuckDB", "ClickHouse", "SQLServer"}

\* TableScan.fill, the Umbra, Hyper, Postgres and DuckDB branches: plan[key]
\* raises KeyError when plan has no such key
TableScan_fill_subscript(op, plan, dbms_type) ==
  CASE dbms_type = "Umbra" ->
         IF ~HasKey(plan, "tablename") THEN FillRaised("KeyError", op)
         ELSE IF ~HasKey(plan, "tableSize")
           THEN FillRaised("KeyError", [op EXCEPT !.table_name = plan.v["tablename"]])
         ELSE Returned([op EXCEPT !.table_name = plan.v["tablename"],
                                !.table_size = plan.v["tableSize"]])
    [] dbms_type = "Hyper" ->
         IF ~HasKey(plan, "debugName") THEN FillRaised("KeyError", op)
         ELSE IF ~IsDict(plan.v["debugName"]) THEN FillRaised("TypeError", op)
         ELSE IF ~HasKey(plan.v["debugName"], "value") THEN FillRaised("KeyError", op)
         ELSE Returned([op EXCEPT !.table_name = plan.v["debugName"].v["value"]])
    [] dbms_type = "Postgres" ->
         IF ~HasKey(plan, "Node Type") THEN FillRaised("KeyError", op)
         ELSE IF plan.v["Node Type"] = StrV("Seq Scan")
           THEN IF ~HasKey(plan, "Relation Name") THEN FillRaised("KeyError", op)
                ELSE Returned([op EXCEPT !.table_name = plan.v["Relation Name"],
                                       !.type = StrV("sequential")])
         ELSE IF plan.v["Node Type"] \in {StrV("Index Scan"), StrV("Index Only Scan")}
           THEN IF ~HasKey(plan, "Relation Name") THEN FillRaised("KeyError", op)
                ELSE Returned([op EXCEPT !.table_name = plan.v["Relation Name"],
                                       !.type = StrV("index")])
         ELSE Returned(op)
    [] dbms_type = "DuckDB" ->
         IF ~HasKey(plan, "extra_info") THEN FillRaised("KeyError", op)
         ELSE IF ~IsDict(plan.v["extra_info"]) THEN FillRaised("TypeError", op)
         ELSE Returned([op EXCEPT !.table_name = Get(plan.v["extra_info"], "Table")])

\* Sort.fill, the Umbra, Hyper and DuckDB branches; Postgres has none
Sort_fill_subscript(op, plan, dbms_type) ==
  CASE dbms_type \in {"Umbra", "Hyper"} -> Returned([op EXCEPT !.limit = Get(plan, "limit")])
    [] dbms_type = "DuckDB" ->
         IF ~HasKey(plan, "extra_info") THEN FillRaised("KeyError", op)
         ELSE IF ~IsDict(plan.v["extra_info"]) THEN FillRaised("TypeError", op)
         ELSE Returned([op EXCEPT !.limit = Get(plan.v["extra_info"], "Top")])
    [] OTHER -> Returned(op)

\* GroupBy.fill, the Umbra, DuckDB, Hyper and Postgres branches
GroupBy_fill_subscript(op, plan, dbms_type) ==
  CASE dbms_type \in {"Umbra", "Hyper"} -> Returned([op EXCEPT !.method = StrV("hash")])
    [] dbms_type = "DuckDB" ->
         IF ~HasKey(plan, "operator_type") THEN FillRaised("KeyError", op)
         ELSE IF plan.v["operator_type"] \in {StrV("HASH_GROUP_BY"), StrV("PERFECT_HASH_GROUP_BY")}
           THEN Returned([op EXCEPT !.method = StrV("hash")])
         ELSE Returned(op)
    [] dbms_type = "Postgres" ->
         IF ~HasKey(plan, "Node Type") THEN FillRaised("KeyError", op)
         ELSE IF plan.v["Node Type"] \in {StrV("Unique"), StrV("Group")}
           THEN Returned([op EXCEPT !.method = plan.v["Node Type"]])
         ELSE IF ~HasKey(plan, "Strategy") THEN FillRaised("KeyError", op)
         ELSE Returned([op EXCEPT !.method = plan.v["Strategy"]])

\* Join.fill, the Umbra, DuckDB, Hyper and Postgres branches
Join_fill_subscript(op, plan, dbms_type) ==
  CASE dbms_type = "Umbra" ->
         LET typed == [op EXCEPT !.type = GetOr(plan, "type", StrV("inner"))]
             Method(name) ==
               CASE name = "hashjoin"        -> "hash"
                 [] name = "indexnljoin"     -> "index"
                 [] name = "bnljoin"         -> "nl"
                 [] name = "ternaryhashjoin" -> "ternaryhash"
                 [] OTHER                    -> remove(name, "join")
         IN  IF ~HasKey(plan, "physicalOperator") THEN FillRaised("KeyError", typed)
             ELSE IF ~IsStr(plan.v["physicalOperator"]) THEN FillRaised("AttributeError", typed)
             ELSE Returned([typed EXCEPT !.method = StrV(Method(plan.v["physicalOperator"].v))])
    [] dbms_type = "DuckDB" ->
         LET Type(type) ==
               CASE type \in {"inner", "single"}       -> type
                 [] type = "right"                     -> "leftouter"
                 [] type = "left"                      -> "rightouter"
                 [] type = "full"                      -> "fullouter"
                 [] type = "right_semi"                -> "leftsemi"
                 [] type = "left_semi"                 -> "rightsemi"
                 [] type = "right_anti"                -> "leftanti"
                 [] type = "left_anti"                 -> "rightanti"
                 [] type \in {"mark", "semi", "anti"}  -> "right" \o type
                 [] OTHER                              -> ""
             Method(name) ==
               CASE name = "piecewise_merge" -> StrV("merge")
                 [] name = "nested_loop"     -> StrV("nl")
                 [] name = "index"           -> StrV("index")
                 [] name = "hash"            -> StrV("hash")
                 [] endswith(name, "delim")  -> StrV("delim")
                 [] OTHER                    -> op.method
             Typed(type) ==
               IF Type(type) = "" THEN FillRaised("Exception", op)
               ELSE IF ~HasKey(plan, "operator_type")
                 THEN FillRaised("KeyError", [op EXCEPT !.type = StrV(Type(type))])
               ELSE IF ~IsStr(plan.v["operator_type"])
                 THEN FillRaised("AttributeError", [op EXCEPT !.type = StrV(Type(type))])
               ELSE Returned([op EXCEPT !.type = StrV(Type(type)),
                                       !.method = Method(lower(remove(plan.v["operator_type"].v,
                                                                      "_JOIN")))])
         IN  IF ~HasKey(plan, "extra_info") THEN FillRaised("KeyError", op)
             ELSE IF ~IsDict(plan.v["extra_info"]) THEN FillRaised("TypeError", op)
             ELSE IF ~HasKey(plan.v["extra_info"], "Join Type") THEN FillRaised("KeyError", op)
             ELSE IF ~IsStr(plan.v["extra_info"].v["Join Type"])
               THEN FillRaised("AttributeError", op)
             ELSE Typed(lower(plan.v["extra_info"].v["Join Type"].v))
    [] dbms_type = "Hyper" ->
         LET Type(type) == IF type = "" THEN "inner" ELSE type
         IN  IF ~HasKey(plan, "method") THEN FillRaised("KeyError", op)
             ELSE IF ~HasKey(plan, "operator")
               THEN FillRaised("KeyError", [op EXCEPT !.method = plan.v["method"]])
             ELSE IF ~IsStr(plan.v["operator"])
               THEN FillRaised("AttributeError", [op EXCEPT !.method = plan.v["method"]])
             ELSE Returned([op EXCEPT !.method = plan.v["method"],
                                     !.type = StrV(Type(remove(plan.v["operator"].v, "join")))])
    [] dbms_type = "Postgres" ->
         LET Method(name) ==
               CASE name = StrV("Merge Join")  -> StrV("merge")
                 [] name = StrV("Hash Join")   -> StrV("hash")
                 [] name = StrV("Nested Loop") -> StrV("nl")
                 [] OTHER                      -> op.method
         IN  IF ~HasKey(plan, "Node Type") \/ ~HasKey(plan, "Join Type")
               THEN FillRaised("KeyError", op)
             ELSE Returned([op EXCEPT !.type = plan.v["Join Type"],
                                     !.method = Method(plan.v["Node Type"])])

\* SetOperation.fill: three independent branches, for Umbra, DuckDB and Hyper
SetOperation_fill(op, plan, dbms_type) ==
  CASE dbms_type = "Umbra" ->
         IF ~HasKey(plan, "operation") THEN FillRaised("KeyError", op)
         ELSE Returned([op EXCEPT !.type = plan.v["operation"]])
    [] dbms_type = "DuckDB" ->
         IF ~HasKey(plan, "operator_type") THEN FillRaised("KeyError", op)
         ELSE IF plan.v["operator_type"] = StrV("UNION")
           THEN Returned([op EXCEPT !.type = StrV("unionall")])
         ELSE Returned(op)
    [] dbms_type = "Hyper" ->
         IF ~HasKey(plan, "operator") THEN FillRaised("KeyError", op)
         ELSE Returned([op EXCEPT !.type = plan.v["operator"]])
    [] OTHER -> Returned(op)

\* operator.fill(plan, dbms_type) as a call that returns or raises: the
\* ClickHouse and SQL Server branches read plan with get only and return
fill_call(op, plan, dbms_type) ==
  IF dbms_type \in {"ClickHouse", "SQLServer"} THEN Returned(fill(op, plan, dbms_type))
  ELSE CASE op.operator_type = "TableScan"    -> TableScan_fill_subscript(op, plan, dbms_type)
         [] op.operator_type = "Sort"         -> Sort_fill_subscript(op, plan, dbms_type)
         [] op.operator_type = "GroupBy"      -> GroupBy_fill_subscript(op, plan, dbms_type)
         [] op.operator_type = "Join"         -> Join_fill_subscript(op, plan, dbms_type)
         [] op.operator_type = "SetOperation" -> SetOperation_fill(op, plan, dbms_type)
         [] OTHER -> Returned(op)

(***************************************************************************)
(* Plan tree model: LeafNode and InnerNode.  src is a ghost field: the     *)
(* place in the payload of the raw node whose operator the node wraps.     *)
(***************************************************************************)
LeafNode(operator, estimated_cardinality, exact_cardinality, system_representation, src) ==
  [kind |-> "LeafNode", operator |-> operator,
   estimated_cardinality |-> estimated_cardinality, exact_cardinality |-> exact_cardinality,
   children |-> <<>>, system_representation |-> system_representation, src |-> src]

InnerNode(operator, estimated_cardinality, exact_cardinality, children, system_representation, src) ==
  [kind |-> "InnerNode", operator |-> operator,
   estimated_cardinality |-> estimated_cardinality, exact_cardinality |-> exact_cardinality,
   children |-> children, system_representation |-> system_representation, src |-> src]

QueryPlan(text, plan) == [text |-> text, plan |-> plan]

\* what a build step hands back: the node and the parser's op_counter after it,
\* or the exception that left it
Built(node, ctr) == [err |-> "", node |-> node, ctr |-> ctr]

Raised(e, ctr) == [err |-> e, node |-> None, ctr |-> ctr]

(***************************************************************************)
(* ClickHouseParser.  A raw node is a dict; the parser instance is its     *)
(* op_counter and its include_system_representation flag.                  *)
(***************************************************************************)
ChildKeys == <<"Plans", "plans", "Children", "children", "sources">>

NameKeys == <<"Node Type", "NodeType", "PlanStep", "Plan Node Type", "Name", "type", "Step">>

IdKeys == <<"PlanNodeId", "Plan Node Id", "PlanNodeID", "NodeId", "Node ID">>

\* the place in keys of the first key that is in hits; 0 when none is
FirstKey(keys, hits) ==
  IF \E i \in 1..Len(keys) : keys[i] \in hits
    THEN CHOOSE i \in 1..Len(keys) :
           keys[i] \in hits /\ \A j \in 1..(i - 1) : keys[j] \notin hits
    ELSE 0

\* ClickHouseParser._extract_children
ClickHouse_extract_children(plan) ==
  IF ~IsDict(plan) THEN <<>>
  ELSE LET Under(i) == IF i = 0 THEN <<>> ELSE plan.v[ChildKeys[i]].v
       IN  Under(FirstKey(ChildKeys, {key \in DOMAIN plan.v : Truthy(plan.v[key])}))

\* a leaf test that takes every raw node for a leaf
ClickHouse_is_leaf_operator_always(plan) == TRUE

\* ClickHouseParser.is_leaf_operator
ClickHouse_is_leaf_operator(plan) == Len(ClickHouse_extract_children(plan)) = 0

\* ClickHouseParser._extract_operator_name
ClickHouse_extract_operator_name(plan) ==
  IF ~IsDict(plan) THEN StrV(PyStr(plan))
  ELSE LET Under(i) == IF i = 0 THEN GetOr(plan, "plan_node_name", StrV("Unknown"))
                         ELSE plan.v[NameKeys[i]]
       IN  Under(FirstKey(NameKeys, {key \in DOMAIN plan.v : Truthy(plan.v[key])}))

\* ClickHouseParser._extract_operator_id: the id and the op_counter after the call
ClickHouse_extract_operator_id(plan, op_counter) ==
  LET Tried(value, r) == [id |-> IF r.ok THEN IntV(r.v) ELSE value, ctr |-> op_counter]
      Under(i) ==
        IF i = 0 THEN [id |-> IntV(op_counter), ctr |-> op_counter + 1]
        ELSE Tried(plan.v[IdKeys[i]], int(plan.v[IdKeys[i]]))
  IN  IF ~IsDict(plan) THEN [id |-> IntV(op_counter), ctr |-> op_counter + 1]
      ELSE Under(FirstKey(IdKeys, {key \in DOMAIN plan.v : ~IsNone(plan.v[key])}))

\* ClickHouseParser._safe_int: [err, v]; only TypeError and ValueError are caught,
\* int(float("inf")) raises OverflowError
ClickHouse_safe_int(value) ==
  LET Caught(r) ==
        IF r.ok THEN [err |-> "", v |-> IntV(r.v)]
        ELSE IF r.err \in {"TypeError", "ValueError"} THEN [err |-> "", v |-> None]
        ELSE [err |-> r.err, v |-> None]
  IN  IF IsStr(value) THEN Caught(PyIntOfFloatStr(value.v)) ELSE Caught(int(value))

\* cardinalities in which a missing exact count stays None
ClickHouse_extract_cardinalities_no_default(plan) ==
  LET stats == Or(Or(Get(plan, "Statistics"), Get(plan, "statistics")), EmptyDict)
  IN  [err |-> "",
       estimated |-> ClickHouse_safe_int(Or(Get(stats, "row_count"), Get(stats, "estimated_rows"))).v,
       exact |-> ClickHouse_safe_int(Or(Get(stats, "rows"), Get(stats, "rows_before_limit"))).v]

\* ClickHouseParser._extract_cardinalities: [err, estimated, exact]
ClickHouse_extract_cardinalities(plan) ==
  IF ~IsDict(plan) THEN [err |-> "", estimated |-> None, exact |-> None]
  ELSE LET stats == Or(Or(Get(plan, "Statistics"), Get(plan, "statistics")), EmptyDict)
       IN  IF ~IsDict(stats) THEN [err |-> "AttributeError", estimated |-> None, exact |-> None]
           ELSE LET estimated == ClickHouse_safe_int(
                      Or(Or(Or(Get(stats, "row_count"), Get(stats, "estimated_rows")),
                            Get(stats, "rowCount")), Get(stats, "rows_before_limit_at_least")))
                    exact == ClickHouse_safe_int(
                      Or(Or(Get(stats, "rows"), Get(stats, "rows_before_limit")),
                         Get(stats, "output_rows")))
                IN  IF estimated.err # "" THEN [err |-> estimated.err, estimated |-> None, exact |-> None]
                    ELSE IF exact.err # "" THEN [err |-> exact.err, estimated |-> None, exact |-> None]
                    ELSE [err |-> "", estimated |-> estimated.v,
                          exact |-> IF IsNone(exact.v) THEN estimated.v ELSE exact.v]

\* ClickHouseParser.create_empty_operator
ClickHouse_create_empty_operator(operator_name, operator_id) ==
  LET normalized == IF IsStr(operator_name) THEN lower(operator_name.v)
                    ELSE lower(PyStr(operator_name))
  IN  IF startswith(normalized, "read") THEN TableScan(operator_id)
      ELSE IF startswith(normalized, "aggregating") \/ startswith(normalized, "group")
        THEN GroupBy(operator_id)
      ELSE IF startswith(normalized, "sorting") \/ contains(normalized, " sort")
              \/ startswith(normalized, "order by")
        THEN Sort(operator_id)
      ELSE IF contains(normalized, "join") THEN Join(operator_id)
      ELSE IF startswith(normalized, "filter") THEN Select(operator_id)
      ELSE IF normalized \in {"arrayjoin", "array join"} THEN ArrayUnnest(operator_id)
      ELSE IF normalized \in {"union", "intersect", "except"}
        THEN [SetOperation(operator_id) EXCEPT !.type = StrV(normalized)]
      ELSE IF startswith(normalized, "limit") THEN CustomOperator(StrV("Limit"), operator_id)
      ELSE IF startswith(normalized, "projection") \/ startswith(normalized, "expression")
        THEN Map(operator_id)
      ELSE CustomOperator(operator_name, operator_id)

\* system_representation of a ClickHouse node: a copy of the raw dict without
\* its child keys, or None
ClickHouse_system_representation(plan, include_system_representation) ==
  IF include_system_representation
    THEN DictV([k \in DOMAIN plan.v \ {ChildKeys[i] : i \in 1..Len(ChildKeys)} |-> plan.v[k]])
    ELSE None

\* a wrapper test that takes no name for an expression wrapper
ClickHouse_is_expression_never(normalized_name) == FALSE

\* the wrapper test of build_initial_plan: normalized_name.startswith("expression")
ClickHouse_is_expression(normalized_name) == startswith(normalized_name, "expression")

\* ClickHouseParser.build_initial_plan on the raw node at path of the payload,
\* with the parser's op_counter threaded through
RECURSIVE ClickHouse_build_initial_plan(_, _, _, _)
RECURSIVE ClickHouse_build_children(_, _, _, _, _, _)
\* the recursive call self.build_initial_plan(child), as a function of its arguments
ClickHouse_build_[a \in Any] == ClickHouse_build_initial_plan(a[1], a[2], a[3], a[4])

\* Each local of the method is bound once, as the parameter of the step that
\* runs after its assignment: Named after lines 25-30, Filled after lines 38-48,
\* Merge after line 52, Rest from line 58 on.
ClickHouse_build_initial_plan(json_plan, path, op_counter, include) ==
  LET Rest(operator, card, sysrep, children_nodes, ctr) ==
        IF ClickHouse_is_leaf_operator(json_plan)
          THEN Built(LeafNode(operator, card.estimated, card.exact, sysrep, path), ctr)
        ELSE LET Inner(kids) ==
                   IF kids.err # "" THEN Raised(kids.err, kids.ctr)
                   ELSE Built(InnerNode(operator, card.estimated, card.exact,
                                        kids.nodes, sysrep, path), kids.ctr)
             IN  Inner(ClickHouse_build_children(children_nodes, 1, path, ctr, include, <<>>))
      Merge(operator, card, sysrep, children_nodes, merged_child) ==
        IF merged_child.err # "" THEN merged_child
        ELSE IF merged_child.node.operator.operator_type = "Sort"
          THEN IF ~IsNone(operator.limit)
                 THEN [merged_child EXCEPT !.node.operator.limit = operator.limit]
                 ELSE merged_child
        ELSE Rest(operator, card, sysrep, children_nodes, merged_child.ctr)
      Filled(operator, card, sysrep, children_nodes, ctr) ==
        IF card.err # "" THEN Raised(card.err, ctr)
        ELSE IF /\ operator.operator_type = "CustomOperator"
                /\ IsStr(operator.name) /\ operator.name.v = "Limit"
                /\ Len(children_nodes) > 0
          THEN Merge(operator, card, sysrep, children_nodes,
                     ClickHouse_build_[<<children_nodes[1], path \o <<1>>, ctr, include>>])
        ELSE Rest(operator, card, sysrep, children_nodes, ctr)
      Named(operator_name, idr, expression, children_nodes) ==
        IF expression /\ Len(children_nodes) > 0
          THEN ClickHouse_build_[<<children_nodes[1], path \o <<1>>, idr.ctr, include>>]
        ELSE Filled(fill(ClickHouse_create_empty_operator(
                           IF expression THEN StrV("Map") ELSE operator_name, idr.id),
                         json_plan, "ClickHouse"),
                    ClickHouse_extract_cardinalities(json_plan),
                    ClickHouse_system_representation(json_plan, include),
                    children_nodes, idr.ctr)
      Normalized(operator_name) ==
        Named(operator_name, ClickHouse_extract_operator_id(json_plan, op_counter),
              ClickHouse_is_expression(IF IsStr(operator_name) THEN lower(operator_name.v)
                                       ELSE lower(PyStr(operator_name))),
              ClickHouse_extract_children(json_plan))
  IN  Normalized(ClickHouse_extract_operator_name(json_plan))

\* [self.build_initial_plan(child) for child in children_nodes], from child i on
ClickHouse_build_children(children_nodes, i, path, op_counter, include, acc) ==
  LET Next_child(b) ==
        IF b.err # "" THEN [err |-> b.err, nodes |-> acc, ctr |-> b.ctr]
        ELSE ClickHouse_build_children(children_nodes, i + 1, path, b.ctr, include,
                                       Append(acc, b.node))
  IN  IF i > Len(children_nodes) THEN [err |-> "", nodes |-> acc, ctr |-> op_counter]
      ELSE Next_child(ClickHouse_build_[<<children_nodes[i], path \o <<i>>, op_counter, include>>])

\* ClickHouseParser.parse_json_plan: [err, plan, ctr]
ClickHouse_parse_json_plan(query, json_plan, op_counter, include) ==
  LET Root_over(plan) ==
        IF plan.err # "" THEN [err |-> plan.err, plan |-> None, ctr |-> plan.ctr]
        ELSE [err |-> "",
              plan |-> QueryPlan(query,
                         InnerNode(Result(IntV(-1)), plan.node.estimated_cardinality,
                                   plan.node.exact_cardinality, <<plan.node>>,
                                   StrV("// added by benchy"), <<-1>>)),
              ctr |-> plan.ctr]
      From(got) ==
        Root_over(ClickHouse_build_initial_plan(
                    IF IsList(got) THEN (IF Len(got.v) > 0 THEN got.v[1] ELSE EmptyDict) ELSE got,
                    <<>>, op_counter, include))
  IN  From(Or(Or(Get(json_plan, "Plan"), Get(json_plan, "plan")), json_plan))

(***************************************************************************)
(* SQLServerParser.  An XML element is [tag, attrib, elems]: attrib maps   *)
(* attribute names to strings, elems are the child elements in document   *)
(* order.  A flat row is [ncols, cols]: cols maps column names to values.  *)
(***************************************************************************)
Element(tag, attrib, elems) == [tag |-> tag, attrib |-> attrib, elems |-> elems]

NoAttrib == [k \in {} |-> ""]

\* Element.find(tag): the first direct child with that tag, or None
find(elem, tag) ==
  IF \E i \in 1..Len(elem.elems) : elem.elems[i].tag = tag
    THEN elem.elems[CHOOSE i \in 1..Len(elem.elems) :
                      /\ elem.elems[i].tag = tag
                      /\ \A j \in 1..(i - 1) : elem.elems[j].tag # tag]
    ELSE None

\* Element.findall(tag): the direct children with that tag, in document order
findall(elem, tag) == SelectSeq(elem.elems, LAMBDA e : e.tag = tag)

IsElement(x) == "tag" \in DOMAIN x

\* Element.find(".//" + tag): [found, path], the first descendant of elem with
\* that tag in document order (elem itself is not a candidate), as its path
RECURSIVE FindDescendant(_, _, _, _)
FindDescendant(elem, tag, path, i) ==
  IF i > Len(elem.elems) THEN [found |-> FALSE, path |-> <<>>]
  ELSE IF elem.elems[i].tag = tag THEN [found |-> TRUE, path |-> path \o <<i>>]
  ELSE LET below == FindDescendant(elem.elems[i], tag, path \o <<i>>, 1)
       IN  IF below.found THEN below ELSE FindDescendant(elem, tag, path, i + 1)

\* the element at path (indices into elems) below elem
RECURSIVE ElementAt(_, _)
ElementAt(elem, path) ==
  IF Len(path) = 0 THEN elem ELSE ElementAt(elem.elems[Head(path)], Tail(path))

\* attrib.get(name): the attribute as a Python value
Attr(elem, name) == IF name \in DOMAIN elem.attrib THEN StrV(elem.attrib[name]) ELSE None

\* SQLServerParser._safe_int
SQLServer_safe_int(value) ==
  LET Caught(r) == IF r.ok THEN IntV(r.v) ELSE None
  IN  IF IsNone(value) THEN None
      ELSE IF IsStr(value) THEN Caught(PyIntOfFloatStr(value.v))
      ELSE Caught(int(value))

\* SQLServerParser._extract_children: the paths, below the RelOp, of its child RelOps
SQLServer_extract_children(relop_elem) ==
  LET Under(e, prefix) ==
        LET idx == SelectSeq([i \in 1..Len(e.elems) |-> i], LAMBDA i : e.elems[i].tag = "RelOp")
        IN  [k \in 1..Len(idx) |-> prefix \o <<idx[k]>>]
      ci == IF \E i \in 1..Len(relop_elem.elems) : relop_elem.elems[i].tag = "Children"
              THEN CHOOSE i \in 1..Len(relop_elem.elems) :
                     /\ relop_elem.elems[i].tag = "Children"
                     /\ \A j \in 1..(i - 1) : relop_elem.elems[j].tag # "Children"
              ELSE 0
  IN  IF ci # 0 THEN Under(relop_elem.elems[ci], <<ci>>) ELSE Under(relop_elem, <<>>)

\* SQLServerParser._extract_operator_id: the id and the op_counter after the call
SQLServer_extract_operator_id(relop_elem, op_counter) ==
  LET Tried(node_id, r) == [id |-> IF r.ok THEN IntV(r.v) ELSE node_id, ctr |-> op_counter]
      Given(node_id) ==
        IF ~IsNone(node_id) THEN Tried(node_id, int(node_id))
        ELSE [id |-> IntV(op_counter), ctr |-> op_counter + 1]
  IN  Given(Attr(relop_elem, "NodeId"))

\* SQLServerParser._decide_operator_name, for strings physical and logical
SQLServer_decide_operator_name(physical, logical) ==
  LET phys == lower(physical)
      logical_lower == lower(logical)
  IN  IF startswith(phys, "hash match")
        THEN IF contains(logical_lower, "aggregate") THEN "Hash Aggregate" ELSE "Hash Match"
      ELSE IF startswith(phys, "stream aggregate") THEN "Stream Aggregate"
      ELSE IF startswith(phys, "merge join") THEN "Merge Join"
      ELSE IF startswith(phys, "nested loops") THEN "Nested Loops"
      ELSE IF startswith(phys, "top") THEN "Top"
      ELSE IF startswith(phys, "concat") THEN "Concatenation"
      ELSE IF startswith(phys, "filter") THEN "Filter"
      ELSE IF startswith(phys, "sort") THEN "Sort"
      ELSE IF startswith(phys, "compute") THEN "Compute Scalar"
      ELSE IF startswith(phys, "table scan") \/ startswith(phys, "index scan")
              \/ startswith(phys, "index seek") \/ startswith(phys, "clustered index")
        THEN physical
      ELSE IF Len(physical) > 0 THEN physical ELSE logical

\* SQLServerParser._annotate_join_or_agg: the entries it adds to plan_info
SQLServer_annotate_join_or_agg(physical, logical) ==
  LET phys_lower == lower(physical)
      logical_lower == lower(logical)
      join_type ==
        IF contains(logical_lower, "left anti") THEN StrV("leftanti")
        ELSE IF contains(logical_lower, "right anti") THEN StrV("rightanti")
        ELSE IF contains(logical_lower, "left semi") THEN StrV("leftsemi")
        ELSE IF contains(logical_lower, "right semi") THEN StrV("rightsemi")
        ELSE IF contains(logical_lower, "inner") THEN StrV("inner")
        ELSE IF contains(logical_lower, "left outer") THEN StrV("leftouter")
        ELSE IF contains(logical_lower, "right outer") THEN StrV("rightouter")
        ELSE IF contains(logical_lower, "full outer") THEN StrV("fullouter")
        ELSE IF contains(logical_lower, "cross") THEN StrV("cross")
        ELSE IF contains(logical_lower, "semi") THEN StrV("semi")
        ELSE IF contains(logical_lower, "anti") THEN StrV("anti")
        ELSE None
      join ==
        IF contains(logical_lower, "join") \/ contains(phys_lower, "join")
          THEN ("join_type" :> join_type)
               @@ (IF contains(phys_lower, "hash") THEN "join_method" :> StrV("hash")
                   ELSE IF contains(phys_lower, "merge") THEN "join_method" :> StrV("merge")
                   ELSE IF contains(phys_lower, "loop") THEN "join_method" :> StrV("nl")
                   ELSE IF contains(phys_lower, "adaptive") THEN "join_method" :> StrV("adaptive")
                   ELSE [k \in {} |-> None])
          ELSE [k \in {} |-> None]
      agg ==
        IF contains(logical_lower, "aggregate") \/ contains(phys_lower, "aggregate")
          THEN IF contains(phys_lower, "hash") THEN "agg_method" :> StrV("hash")
               ELSE IF contains(phys_lower, "stream") THEN "agg_method" :> StrV("stream")
               ELSE [k \in {} |-> None]
          ELSE [k \in {} |-> None]
  IN  join @@ agg

ObjectTags == <<"IndexScan", "IndexSeek", "TableScan", "ClusteredIndexScan", "ClusteredIndexSeek">>

\* SQLServerParser._annotate_object: the entries it adds to plan_info
SQLServer_annotate_object(relop_elem) ==
  LET Object(obj) ==
        IF IsElement(obj)
          THEN "object" :> DictV([k \in DOMAIN obj.attrib |-> StrV(obj.attrib[k])])
          ELSE [k \in {} |-> None]
      Under(i) ==
        IF i = 0 THEN [k \in {} |-> None]
        ELSE Object(find(find(relop_elem, ObjectTags[i]), "Object"))
  IN  Under(FirstKey(ObjectTags,
                     {relop_elem.elems[k].tag : k \in 1..Len(relop_elem.elems)}))

\* SQLServerParser.create_empty_operator with the join rule deciding before
\* the aggregate test
SQLServer_create_empty_operator_join_first(operator_name, operator_id) ==
  LET name == lower(operator_name)
  IN  IF startswith(name, "table scan") \/ startswith(name, "index scan")
         \/ startswith(name, "index seek") \/ startswith(name, "clustered index")
        THEN TableScan(operator_id)
      ELSE IF startswith(name, "sort") THEN Sort(operator_id)
      ELSE IF startswith(name, "filter") THEN Select(operator_id)
      ELSE IF startswith(name, "compute") THEN Map(operator_id)
      ELSE IF startswith(name, "hash match") \/ startswith(name, "merge join")
              \/ startswith(name, "nested loops") \/ contains(name, "join")
        THEN Join(operator_id)
      ELSE IF contains(name, "aggregate") THEN GroupBy(operator_id)
      ELSE IF startswith(name, "top") THEN CustomOperator(StrV("Top"), operator_id)
      ELSE IF startswith(name, "concat") \/ startswith(name, "concatenation")
        THEN [SetOperation(operator_id) EXCEPT !.type = StrV("unionall")]
      ELSE CustomOperator(StrV(operator_name), operator_id)

\* SQLServerParser.create_empty_operator
SQLServer_create_empty_operator(operator_name, operator_id) ==
  LET name == lower(operator_name)
  IN  IF startswith(name, "table scan") \/ startswith(name, "index scan")
         \/ startswith(name, "index seek") \/ startswith(name, "clustered index")
        THEN TableScan(operator_id)
      ELSE IF startswith(name, "sort") THEN Sort(operator_id)
      ELSE IF startswith(name, "filter") THEN Select(operator_id)
      ELSE IF startswith(name, "compute") THEN Map(operator_id)
      ELSE IF startswith(name, "hash match") \/ startswith(name, "merge join")
              \/ startswith(name, "nested loops") \/ contains(name, "join")
        THEN IF contains(name, "aggregate") THEN GroupBy(operator_id) ELSE Join(operator_id)
      ELSE IF contains(name, "aggregate") THEN GroupBy(operator_id)
      ELSE IF startswith(name, "top") THEN CustomOperator(StrV("Top"), operator_id)
      ELSE IF startswith(name, "concat") \/ startswith(name, "concatenation")
        THEN [SetOperation(operator_id) EXCEPT !.type = StrV("unionall")]
      ELSE CustomOperator(StrV(operator_name), operator_id)

\* system_representation of a RelOp: ET.tostring(relop_elem), the element with
\* everything below it, or None
SQLServer_system_representation(relop_elem, include_system_representation) ==
  IF include_system_representation THEN [t |-> "xml", v |-> relop_elem] ELSE None

\* SQLServerParser.build_relop on the RelOp at path of the document, with the
\* parser's op_counter threaded through
RECURSIVE SQLServer_build_relop(_, _, _, _)
RECURSIVE SQLServer_build_relops(_, _, _, _, _, _)
\* the recursive call self.build_relop(child), as a function of its arguments
SQLServer_build_relop_[a \in Any] == SQLServer_build_relop(a[1], a[2], a[3], a[4])

\* Each local of the method is bound once, as the parameter of the step that
\* runs after its assignment: Decided after lines 33-36, Node after lines 38-68.
SQLServer_build_relop(relop_elem, path, op_counter, include) ==
  LET Inner(operator, estimated_cardinality, exact_cardinality, sysrep, kids) ==
        Built(InnerNode(operator, estimated_cardinality, exact_cardinality,
                        kids.nodes, sysrep, path), kids.ctr)
      Node(operator, estimated_cardinality, actual, sysrep, children_relops, ctr) ==
        LET exact_cardinality == IF IsNone(actual) THEN estimated_cardinality ELSE actual
        IN  IF Len(children_relops) = 0
              THEN Built(LeafNode(operator, estimated_cardinality, exact_cardinality,
                                  sysrep, path), ctr)
            ELSE Inner(operator, estimated_cardinality, exact_cardinality, sysrep,
                       SQLServer_build_relops(relop_elem, children_relops, 1, path, ctr,
                                              include))
      Decided(physical, logical, operator_name, idr, top_elem) ==
        Node(fill(SQLServer_create_empty_operator(operator_name, idr.id),
                  DictV(SQLServer_annotate_object(relop_elem)
                        @@ (IF lower(operator_name) = "top" /\ IsElement(top_elem)
                              THEN "limit" :> SQLServer_safe_int(Attr(top_elem, "RowCount"))
                              ELSE [k \in {} |-> None])
                        @@ SQLServer_annotate_join_or_agg(physical, logical)
                        @@ ("PhysicalOp" :> StrV(physical)) @@ ("LogicalOp" :> StrV(logical))),
                  "SQLServer"),
             SQLServer_safe_int(Attr(relop_elem, "EstimateRows")),
             SQLServer_safe_int(Attr(relop_elem, "ActualRows")),
             SQLServer_system_representation(relop_elem, include),
             SQLServer_extract_children(relop_elem),
             idr.ctr)
      Logical(physical, logical) ==
        Decided(physical, logical, SQLServer_decide_operator_name(physical, logical),
                SQLServer_extract_operator_id(relop_elem, op_counter),
                find(relop_elem, "Top"))
      Physical(physical) ==
        Logical(physical, GetOr(DictV(relop_elem.attrib), "LogicalOp", physical))
  IN  Physical(GetOr(DictV(relop_elem.attrib), "PhysicalOp", "Unknown"))

\* [self.build_relop(child) for child in children_relops], from child i on
SQLServer_build_relops(relop_elem, children_relops, i, path, op_counter, include) ==
  LET Cons(b, r) == [nodes |-> <<b.node>> \o r.nodes, ctr |-> r.ctr]
      Next_child(b) ==
        Cons(b, SQLServer_build_relops(relop_elem, children_relops, i + 1, path, b.ctr,
                                       include))
  IN  IF i > Len(children_relops) THEN [nodes |-> <<>>, ctr |-> op_counter]
      ELSE Next_child(SQLServer_build_relop_[<<ElementAt(relop_elem, children_relops[i]),
                                               path \o children_relops[i], op_counter,
                                               include>>])

\* the columns of a flat row
Columns ==
  <<"Rows", "Executes", "StmtText", "StmtId", "NodeId", "Parent", "PhysicalOp", "LogicalOp",
    "Argument", "DefinedValues", "EstimateRows", "EstimateIO", "EstimateCPU", "AvgRowSize",
    "TotalSubtreeCost", "OutputList", "Warnings", "Type", "Parallel", "EstimateExecutions">>

\* str.upper()
upper(s) ==
  LET UpperChar(c) ==
        IF \E i \in 1..Len(LowerAlpha) : CharAt(LowerAlpha, i) = c
          THEN CharAt(UpperAlpha, CHOOSE i \in 1..Len(LowerAlpha) : CharAt(LowerAlpha, i) = c)
          ELSE c
      U[i \in 0..Len(s)] == IF i = 0 THEN "" ELSE U[i - 1] \o UpperChar(CharAt(s, i))
  IN  U[Len(s)]

\* the entries that _build_from_rows keeps: rows with all columns whose Type is
\* empty or PLAN_ROW
SQLServer_plan_rows(rows) ==
  SelectSeq(rows, LAMBDA row :
    /\ row.ncols >= Len(Columns)
    /\ ~(Truthy(row.cols["Type"]) /\ upper(PyStr(row.cols["Type"])) # "PLAN_ROW"))

\* node_map, as the sequence of its (key, value) pairs in dict order: a key
\* keeps the place of its first row and the value of its last row
SQLServer_node_map(nodes) ==
  LET withId == SelectSeq(nodes, LAMBDA n : ~IsNone(n.cols["NodeId"]))
      key(k) == int(withId[k].cols["NodeId"]).v
      firsts == SelectSeq([k \in 1..Len(withId) |-> k],
                          LAMBDA k : \A j \in 1..(k - 1) : key(j) # key(k))
      last(k) == CHOOSE j \in 1..Len(withId) :
                   key(j) = key(k) /\ \A m \in (j + 1)..Len(withId) : key(m) # key(k)
  IN  [x \in 1..Len(firsts) |-> [nid |-> key(firsts[x]), info |-> withId[last(firsts[x])].cols]]

\* whether a node_map entry has parent None or 0
SQLServer_is_root_row(entry) ==
  IsNone(entry.info["Parent"]) \/ int(entry.info["Parent"]).v = 0

\* children_map.get(node_id, [])
SQLServer_children_ids(node_map, node_id) ==
  LET kids == SelectSeq(node_map, LAMBDA e :
                ~SQLServer_is_root_row(e) /\ int(e.info["Parent"]).v = node_id)
  IN  [k \in 1..Len(kids) |-> kids[k].nid]

\* root_id: the first entry with parent None or 0, else the smallest key, else None
SQLServer_root_id(node_map) ==
  IF \E k \in 1..Len(node_map) : SQLServer_is_root_row(node_map[k])
    THEN IntV(node_map[CHOOSE k \in 1..Len(node_map) :
                         /\ SQLServer_is_root_row(node_map[k])
                         /\ \A j \in 1..(k - 1) : ~SQLServer_is_root_row(node_map[j])].nid)
  ELSE IF Len(node_map) > 0
    THEN IntV(CHOOSE m \in {node_map[k].nid : k \in 1..Len(node_map)} :
                \A k \in 1..Len(node_map) : m <= node_map[k].nid)
  ELSE None

\* node_map[node_id]
SQLServer_info(node_map, node_id) ==
  node_map[CHOOSE k \in 1..Len(node_map) : node_map[k].nid = node_id].info

\* whether p stands in s at position i
matchat(s, i, p) == i >= 1 /\ i + Len(p) - 1 <= Len(s) /\ SubSeq(s, i, i + Len(p) - 1) = p

\* the end (exclusive) of the longest run from position i of s of characters
\* that are in chars (inside) or not in chars (not inside)
runend(s, i, chars, inside) ==
  CHOOSE j \in i..(Len(s) + 1) :
    /\ \A m \in i..(j - 1) : (CharAt(s, m) \in chars) = inside
    /\ (j > Len(s) \/ (CharAt(s, j) \in chars) # inside)

Spaces == {" ", "\t", "\n", "\r"}

DigitChars == {CharAt(Digits, i) : i \in 1..Len(Digits)}

\* SQLServerParser._extract_top_limit: re.search(r"TOP\s+(\d+)", argument,
\* re.IGNORECASE), the number after the leftmost match, or None
SQLServer_extract_top_limit(argument) ==
  IF ~IsStr(argument) THEN None
  ELSE LET s == argument.v
           DigitsFrom(d) == runend(s, d, DigitChars, TRUE) > d
           Match(i) == /\ matchat(lower(s), i, "top")
                       /\ runend(s, i + 3, Spaces, TRUE) > i + 3
                       /\ DigitsFrom(runend(s, i + 3, Spaces, TRUE))
           Number(d) == IntV(DigitsToNat(SubSeq(s, d, runend(s, d, DigitChars, TRUE) - 1)))
           First(starts) ==
             IF starts = {} THEN None
             ELSE Number(runend(s, (CHOOSE m \in starts : \A n \in starts : m <= n) + 3,
                                Spaces, TRUE))
       IN  First({i \in 1..Len(s) : Match(i)})

\* SQLServerParser._annotate_object_from_argument: the entries it adds to
\* plan_info.  The first pattern is OBJECT:([db].[schema].[table] with each
\* name a non-empty run without "]"; the second is OBJECT: and a non-empty
\* run without ","
SQLServer_annotate_object_from_argument(argument) ==
  IF ~IsStr(argument) THEN [k \in {} |-> None]
  ELSE LET s == argument.v
           Name(i) == runend(s, i, {"]"}, FALSE)
           Third(i, e1, e2, e3) ==
             /\ e1 > i + 9 /\ matchat(s, e1, "].[")
             /\ e2 > e1 + 3 /\ matchat(s, e2, "].[")
             /\ e3 > e2 + 3 /\ matchat(s, e3, "]")
           Second(i, e1, e2) == Third(i, e1, e2, Name(e2 + 3))
           First(i, e1) == Second(i, e1, Name(e1 + 3))
           Match(i) == matchat(s, i, "OBJECT:([") /\ First(i, Name(i + 9))
           Parts(i, e1, e2) ==
             "object" :> DictV([k \in {"Database", "Schema", "Table"} |->
               CASE k = "Database" -> StrV(SubSeq(s, i + 9, e1 - 1))
                 [] k = "Schema"   -> StrV(SubSeq(s, e1 + 3, e2 - 1))
                 [] k = "Table"    -> StrV(SubSeq(s, e2 + 3, Name(e2 + 3) - 1))])
           Schema(i, e1) == Parts(i, e1, Name(e1 + 3))
           Database(i) == Schema(i, Name(i + 9))
           Plain(i) == matchat(s, i, "OBJECT:") /\ runend(s, i + 7, {","}, FALSE) > i + 7
           PlainAt(i) ==
             "object" :> StrV(strip(SubSeq(s, i + 7, runend(s, i + 7, {","}, FALSE) - 1)))
           Found(starts, plains) ==
             IF starts # {} THEN Database(CHOOSE m \in starts : \A n \in starts : m <= n)
             ELSE IF plains # {} THEN PlainAt(CHOOSE m \in plains : \A n \in plains : m <= n)
             ELSE [k \in {} |-> None]
       IN  Found({i \in 1..Len(s) : Match(i)}, {i \in 1..Len(s) : Plain(i)})

\* a parallelism test that takes no row for a parallelism wrapper
SQLServer_is_parallelism_never(info) == FALSE

\* the parallelism test of build_node: str(PhysicalOp).lower().startswith("parallelism")
SQLServer_is_parallelism(info) == startswith(lower(PyStr(info["PhysicalOp"])), "parallelism")

\* system_representation of a flat row: the row's entry, with the flag or without
SQLServer_row_representation(info, include_system_representation) == DictV(info)

\* build_node of _build_from_rows.  depth counts the frames of the recursion:
\* a chain of more frames than node_map has keys revisits a row, and Python
\* ends such a recursion with RecursionError
RECURSIVE SQLServer_build_node(_, _, _, _)
RECURSIVE SQLServer_build_nodes(_, _, _, _, _)
\* the recursive call build_node(cid), as a function of its arguments
SQLServer_build_node_[a \in Any] == SQLServer_build_node(a[1], a[2], a[3], a[4])

\* Each local of build_node is bound once, as the parameter of the step that
\* runs after its assignment: Annotated after lines 133-144, Node after lines 145-159.
SQLServer_build_node(node_map, node_id, depth, include) ==
  LET Node(info, operator, estimated_cardinality, rows, kids, sysrep) ==
        LET exact_cardinality == IF IsNone(rows) THEN estimated_cardinality ELSE rows
        IN  IF kids.err # "" THEN Raised(kids.err, 0)
            ELSE IF SQLServer_is_parallelism(info) /\ Len(kids.nodes) = 1
              THEN Built(kids.nodes[1], 0)
            ELSE IF Len(kids.nodes) = 0
              THEN Built(LeafNode(operator, estimated_cardinality, exact_cardinality,
                                  sysrep, <<node_id>>), 0)
            ELSE Built(InnerNode(operator, estimated_cardinality, exact_cardinality,
                                 kids.nodes, sysrep, <<node_id>>), 0)
      Annotated(info, physical, logical, top_limit) ==
        Node(info,
             fill(SQLServer_create_empty_operator(
                    SQLServer_decide_operator_name(physical, logical), IntV(node_id)),
                  DictV(SQLServer_annotate_object_from_argument(info["Argument"])
                        @@ SQLServer_annotate_join_or_agg(physical, logical)
                        @@ (IF ~IsNone(top_limit) THEN "limit" :> top_limit
                            ELSE [k \in {} |-> None])
                        @@ [k \in {"PhysicalOp", "LogicalOp", "Argument", "DefinedValues",
                                   "EstimateRows", "Rows"} |-> info[k]]),
                  "SQLServer"),
             SQLServer_safe_int(info["EstimateRows"]),
             SQLServer_safe_int(info["Rows"]),
             SQLServer_build_nodes(node_map, SQLServer_children_ids(node_map, node_id), 1,
                                   depth + 1, include),
             SQLServer_row_representation(info, include))
      Info(info) ==
        IF depth > Len(node_map) THEN Raised("RecursionError", 0)
        ELSE IF ~IsStr(info["PhysicalOp"]) \/ ~IsStr(info["LogicalOp"])
          THEN Raised("AttributeError", 0)
        ELSE Annotated(info, info["PhysicalOp"].v, info["LogicalOp"].v,
                       SQLServer_extract_top_limit(info["Argument"]))
  IN  Info(SQLServer_info(node_map, node_id))

\* [build_node(cid) for cid in children_ids], from child i on
SQLServer_build_nodes(node_map, children_ids, i, depth, include) ==
  LET Cons(b, r) == [err |-> r.err, nodes |-> <<b.node>> \o r.nodes]
      Next_child(b) ==
        IF b.err # "" THEN [err |-> b.err, nodes |-> <<>>]
        ELSE Cons(b, SQLServer_build_nodes(node_map, children_ids, i + 1, depth, include))
  IN  IF i > Len(children_ids) THEN [err |-> "", nodes |-> <<>>]
      ELSE Next_child(SQLServer_build_node_[<<node_map, children_ids[i], depth, include>>])

\* SQLServerParser._build_from_rows
SQLServer_build_from_rows(rows, include) ==
  LET From(node_map, root_id) ==
        IF IsNone(root_id) THEN Raised("ValueError", 0)
        ELSE SQLServer_build_node(node_map, root_id.v, 1, include)
      Mapped(node_map) == From(node_map, SQLServer_root_id(node_map))
  IN  Mapped(SQLServer_node_map(SQLServer_plan_rows(rows)))

\* SQLServerParser.parse_json_plan: [err, plan, ctr].  An XML payload is held as
\* the element tree ET.fromstring makes of it, [t |-> "xml", v |-> root]; any
\* other payload is the list of rows
SQLServer_parse_json_plan(query, plan_payload, op_counter, include) ==
  LET Root_over(plan) ==
        IF plan.err # "" THEN [err |-> plan.err, plan |-> None, ctr |-> plan.ctr]
        ELSE [err |-> "",
              plan |-> QueryPlan(query,
                         InnerNode(Result(IntV(-1)), plan.node.estimated_cardinality,
                                   plan.node.exact_cardinality, <<plan.node>>,
                                   StrV("// added by benchy"), <<-1>>)),
              ctr |-> plan.ctr]
      Found(relop) ==
        IF ~relop.found THEN Raised("ValueError", op_counter)
        ELSE SQLServer_build_relop(ElementAt(plan_payload.v, relop.path),
                                   relop.path, op_counter, include)
      Rows(b) == [b EXCEPT !.ctr = op_counter]
  IN  IF plan_payload.t = "xml"
        THEN Root_over(Found(FindDescendant(plan_payload.v, "RelOp", <<>>, 1)))
        ELSE Root_over(Rows(SQLServer_build_from_rows(plan_payload.v, include)))

(***************************************************************************)
(* Raw payloads.  The raw operators are drawn from a pool per engine; a    *)
(* payload holds at most MaxNodes of them.                                 *)
(***************************************************************************)
ClickHouseNodes ==
  { DictV("Node Type" :> StrV("Expression")),
    DictV("Node Type" :> StrV("Limit") @@ "Limit" :> IntV(5)),
    DictV("Node Type" :> StrV("Limit") @@ "Limit" :> IntV(0)
          @@ "Statistics" :> DictV("row_count" :> IntV(3))),
    DictV("Node Type" :> StrV("Sorting") @@ "Limit" :> IntV(7)
          @@ "Statistics" :> DictV("rows" :> IntV(10))),
    DictV("Node Type" :> StrV("ReadFromMergeTree") @@ "PlanNodeId" :> IntV(0)
          @@ "Statistics" :> DictV("row_count" :> IntV(20))),
    DictV("Node Type" :> StrV("CreatingSets") @@ "Node ID" :> IntV(-1)) }

\* the raw ClickHouse node at path (child indices from the top-level operator)
RECURSIVE ClickHouseNodeAt(_, _)
ClickHouseNodeAt(plan, path) ==
  IF Len(path) = 0 THEN plan
  ELSE ClickHouseNodeAt(ClickHouse_extract_children(plan)[Head(path)], Tail(path))

RECURSIVE ClickHousePaths(_)
ClickHousePaths(plan) ==
  LET kids == ClickHouse_extract_children(plan)
  IN  {<<>>} \cup UNION { { <<i>> \o q : q \in ClickHousePaths(kids[i]) } : i \in 1..Len(kids) }

\* the raw tree with node appended to the "Plans" list of the node at path
RECURSIVE ClickHouseAppend(_, _, _)
ClickHouseAppend(plan, path, node) ==
  LET kids == ClickHouse_extract_children(plan)
  IN  IF Len(path) = 0
        THEN DictV(("Plans" :> ListV(Append(kids, node))) @@ plan.v)
        ELSE DictV(("Plans" :> ListV([kids EXCEPT ![Head(path)] =
                                        ClickHouseAppend(kids[Head(path)], Tail(path), node)]))
                   @@ plan.v)

\* RelOp elements of a showplan: a Parallelism exchange, a Sort that keeps
\* its inputs under a Children element, a Table Scan with its Object, and a
\* Segment, which no taxonomy rule names
XmlRelOps ==
  { Element("RelOp", "PhysicalOp" :> "Parallelism" @@ "LogicalOp" :> "Gather Streams"
                     @@ "NodeId" :> "0" @@ "EstimateRows" :> "5", <<>>),
    Element("RelOp", "PhysicalOp" :> "Sort" @@ "LogicalOp" :> "Sort" @@ "ActualRows" :> "10",
            << Element("Children", NoAttrib, <<>>) >>),
    Element("RelOp", "PhysicalOp" :> "Table Scan" @@ "LogicalOp" :> "Table Scan"
                     @@ "NodeId" :> "0" @@ "EstimateRows" :> "20.5" @@ "ActualRows" :> "20",
            << Element("TableScan", NoAttrib,
                       << Element("Object", "Schema" :> "dbo" @@ "Table" :> "t", <<>>) >>) >>),
    Element("RelOp", "PhysicalOp" :> "Segment" @@ "LogicalOp" :> "Segment" @@ "NodeId" :> "-1",
            <<>>) }

\* the documents with one RelOp: the RelOp as the document element, or
\* below ShowPlanXML/QueryPlan
XmlDocuments ==
  XmlRelOps \cup { Element("ShowPlanXML", NoAttrib, << Element("QueryPlan", NoAttrib, <<r>>) >>)
                     : r \in XmlRelOps }

\* the paths of the RelOp elements of the document
RECURSIVE XmlRelOpPaths(_)
XmlRelOpPaths(elem) ==
  (IF elem.tag = "RelOp" THEN {<<>>} ELSE {})
  \cup UNION { { <<i>> \o q : q \in XmlRelOpPaths(elem.elems[i]) } : i \in 1..Len(elem.elems) }

\* elem with new as the last element below the element at path
RECURSIVE XmlAppendAt(_, _, _)
XmlAppendAt(elem, path, new) ==
  IF Len(path) = 0 THEN [elem EXCEPT !.elems = Append(@, new)]
  ELSE [elem EXCEPT !.elems[Head(path)] = XmlAppendAt(@, Tail(path), new)]

\* the document with one more input RelOp of the RelOp at path: inside its
\* Children element when it has one, directly below it otherwise
XmlAppend(doc, path, relop) ==
  LET parent == ElementAt(doc, path)
  IN  IF IsElement(find(parent, "Children"))
        THEN XmlAppendAt(doc, path \o <<CHOOSE i \in 1..Len(parent.elems) :
                                          parent.elems[i].tag = "Children">>, relop)
        ELSE XmlAppendAt(doc, path, relop)

\* a flat row with all columns: the given ones, None elsewhere
Row(given) ==
  [ncols |-> Len(Columns),
   cols  |-> [c \in {Columns[i] : i \in 1..Len(Columns)} |->
                IF c \in DOMAIN given THEN given[c] ELSE None]]

\* plan rows of SHOWPLAN_ALL, before NodeId and Parent are set
PlanRows ==
  { "PhysicalOp" :> StrV("Parallelism") @@ "LogicalOp" :> StrV("Gather Streams")
      @@ "EstimateRows" :> IntV(5),
    "PhysicalOp" :> StrV("Sort") @@ "LogicalOp" :> StrV("Sort") @@ "Rows" :> IntV(10),
    "PhysicalOp" :> StrV("Table Scan") @@ "LogicalOp" :> StrV("Table Scan")
      @@ "Argument" :> StrV("OBJECT:([db].[dbo].[t])") @@ "Type" :> StrV("PLAN_ROW")
      @@ "EstimateRows" :> IntV(20) @@ "Rows" :> IntV(20) }

\* the row of the statement, which is no plan step
StatementRow ==
  Row("StmtText" :> StrV("SELECT 1") @@ "NodeId" :> IntV(1) @@ "Parent" :> IntV(0)
      @@ "Type" :> StrV("SELECT"))

\* what a new plan row can name as its Parent: the NodeId of an earlier plan
\* row, or that of the statement row, or 0 when there is no statement row
Parents(rows) ==
  {rows[k].cols["NodeId"].v : k \in 1..Len(rows)} \cup (IF Len(rows) = 0 THEN {0} ELSE {})

Queries == {"SELECT 1", "SELECT 2"}

Engines == {"ClickHouse", "SQLServerXml", "SQLServerRows"}

VARIABLES
  engine,    \* the engine whose payload is being assembled and parsed
  payload,   \* the raw plan payload handed to the parser
  phase,     \* "assemble" while the payload grows, "parsed" once parse_json_plan has run
  query,     \* the query text passed to parse_json_plan
  parser,    \* the parser instance: op_counter and include_system_representation
  result     \* what parse_json_plan did: [err, plan], err = "" when it returned plan

\* the state of the HTTP server process (server.py): its module-level globals, its
\* request threads, the parser instances the plan retrievals construct, and the
\* thread that runs cleanup_dbms
VARIABLES
  active_dbms,   \* the titles registered in the dictionary active_dbms
  dbms_locks,    \* [keys, owner]: the titles in the dictionary dbms_locks, and who holds each lock object
  dbms_lock,     \* who holds the global lock: "free", a request thread, or "cleanup"
  exited,        \* the titles of the instances whose __exit__ has been called
  threads,       \* per request thread: where its handler stands and what it holds
  parsers,       \* the ClickHouseParser instances constructed so far: [op_counter, used_by]
  cleanup        \* [pc, todo]: the position of cleanup_dbms and the items it still has to visit

serverVars == <<active_dbms, dbms_locks, dbms_lock, exited, threads, parsers, cleanup>>

parserVars == <<engine, payload, phase, query, parser, result>>

vars == <<engine, payload, phase, query, parser, result,
          active_dbms, dbms_locks, dbms_lock, exited, threads, parsers, cleanup>>

\* the server process is not running: the specifications of the parsers alone
ServerOff ==
  /\ active_dbms = {}
  /\ dbms_locks = [keys |-> {}, owner |-> <<>>]
  /\ dbms_lock = "free"
  /\ exited = {}
  /\ threads = <<>>
  /\ parsers = <<>>
  /\ cleanup = [pc |-> "off", todo |-> {}]

NoParser == [op_counter |-> 0, include_system_representation |-> FALSE]

NoResult == [err |-> "", plan |-> None]

\* the top-level operator of the ClickHouse payload {"Plan": ...}
ClickHouseTop == payload.v["Plan"]

InitClickHouse ==
  /\ engine = "ClickHouse"
  /\ \E n \in ClickHouseNodes : payload = DictV("Plan" :> n)

InitXml ==
  /\ engine = "SQLServerXml"
  /\ \E d \in XmlDocuments : payload = [t |-> "xml", v |-> d]

InitRows ==
  /\ engine = "SQLServerRows"
  /\ payload \in {ListV(<<>>), ListV(<<StatementRow>>)}

Init ==
  /\ InitClickHouse \/ InitXml \/ InitRows
  /\ phase = "assemble"
  /\ query = ""
  /\ parser = NoParser
  /\ result = NoResult
  /\ ServerOff

\* the EXPLAIN output holds one more operator
AddClickHouseNode ==
  /\ engine = "ClickHouse"
  /\ phase = "assemble"
  /\ Cardinality(ClickHousePaths(ClickHouseTop)) < MaxNodes
  /\ \E path \in ClickHousePaths(ClickHouseTop), n \in ClickHouseNodes :
       payload' = DictV("Plan" :> ClickHouseAppend(ClickHouseTop, path, n))
  /\ UNCHANGED <<engine, phase, query, parser, result>>
  /\ UNCHANGED serverVars

\* the showplan document holds one more RelOp
AddXmlNode ==
  /\ engine = "SQLServerXml"
  /\ phase = "assemble"
  /\ Cardinality(XmlRelOpPaths(payload.v)) < MaxNodes
  /\ \E path \in XmlRelOpPaths(payload.v), r \in XmlRelOps :
       payload' = [payload EXCEPT !.v = XmlAppend(payload.v, path, r)]
  /\ UNCHANGED <<engine, phase, query, parser, result>>
  /\ UNCHANGED serverVars

\* the row set holds one more plan row: its NodeId is the next one
AddRow ==
  /\ engine = "SQLServerRows"
  /\ phase = "assemble"
  /\ Len(SQLServer_plan_rows(payload.v)) < MaxNodes
  /\ \E r \in PlanRows, parent \in Parents(payload.v) :
       payload' = ListV(Append(payload.v,
                    Row(r @@ "NodeId" :> IntV(Len(payload.v) + 1) @@ "Parent" :> IntV(parent))))
  /\ UNCHANGED <<engine, phase, parser, query, result>>
  /\ UNCHANGED serverVars

\* ClickHouse.retrieve_query_plan: a fresh ClickHouseParser parses the payload
ParseClickHouse ==
  /\ engine = "ClickHouse"
  /\ phase = "assemble"
  /\ \E q \in Queries, include \in BOOLEAN :
       \E r \in {ClickHouse_parse_json_plan(q, payload, 0, include)} :
           /\ query' = q
           /\ parser' = [op_counter |-> r.ctr, include_system_representation |-> include]
           /\ result' = [err |-> r.err, plan |-> r.plan]
  /\ phase' = "parsed"
  /\ UNCHANGED <<engine, payload>>
  /\ UNCHANGED serverVars

\* a fresh SQLServerParser parses the payload, a showplan document or rows
ParseSQLServer ==
  /\ engine \in {"SQLServerXml", "SQLServerRows"}
  /\ phase = "assemble"
  /\ \E q \in Queries, include \in BOOLEAN :
       \E r \in {SQLServer_parse_json_plan(q, payload, 0, include)} :
           /\ query' = q
           /\ parser' = [op_counter |-> r.ctr, include_system_representation |-> include]
           /\ result' = [err |-> r.err, plan |-> r.plan]
  /\ phase' = "parsed"
  /\ UNCHANGED <<engine, payload>>
  /\ UNCHANGED serverVars

Next ==
  \/ AddClickHouseNode
  \/ AddXmlNode
  \/ AddRow
  \/ ParseClickHouse
  \/ ParseSQLServer

Spec == Init /\ [][Next]_vars

(***************************************************************************)
(* Cases: whole payloads of the three raw shapes, parsed once and then a   *)
(* second time, and single calls of create_empty_operator and fill.        *)
(***************************************************************************)
\* Scenario A: an Expression over an Aggregating step that reports only its
\* row count
ScenarioA ==
  DictV("Plan" :> DictV("Node Type" :> StrV("Expression") @@ "Plans" :> ListV(<<
          DictV("Node Type" :> StrV("Aggregating")
                @@ "Statistics" :> DictV("rows" :> IntV(10))
                @@ "Plans" :> ListV(<<>>)) >>)))

\* a join as EXPLAIN json = 1, actions = 1 prints it: the kind of the join under
\* "Type", the algorithm under "Algorithm"
LeftHashJoin ==
  DictV("Plan" :> DictV("Node Type" :> StrV("Join") @@ "Type" :> StrV("LEFT")
          @@ "Algorithm" :> StrV("HashJoin")
          @@ "Plans" :> ListV(<< DictV("Node Type" :> StrV("ReadFromMergeTree")),
                                DictV("Node Type" :> StrV("ReadFromMergeTree")) >>)))

\* a scan that read no row: the exact count 0 beside an estimate of 5
ZeroRows ==
  DictV("Plan" :> DictV("Node Type" :> StrV("ReadFromMergeTree")
          @@ "Statistics" :> DictV("rows" :> IntV(0) @@ "row_count" :> IntV(5))))

\* EXPLAIN outputs of ClickHouse
ClickHouseCases ==
  { ScenarioA,
    ZeroRows,
    \* an estimate of 0 beside a second estimate key
    DictV("Plan" :> DictV("Node Type" :> StrV("ReadFromMergeTree")
            @@ "Statistics" :> DictV("row_count" :> IntV(0) @@ "estimated_rows" :> IntV(9)
                                     @@ "rows" :> IntV(4)))),
    LeftHashJoin,
    \* a join that has only a description
    DictV("Plan" :> DictV("Node Type" :> StrV("Join") @@ "Description" :> StrV("JOIN right"))),
    \* a step under none of the name keys
    DictV("Plan" :> DictV("Statistics" :> DictV("row_count" :> IntV(4)))),
    \* a step whose name keys are empty
    DictV("Plan" :> DictV("Node Type" :> StrV("") @@ "plan_node_name" :> StrV(""))),
    \* statistics as numeric strings, NaN and infinity
    DictV("Plan" :> DictV("Node Type" :> StrV("ReadFromMergeTree")
            @@ "Statistics" :> DictV("row_count" :> StrV("12.7") @@ "rows" :> FloatV("nan")))),
    DictV("Plan" :> DictV("Node Type" :> StrV("ReadFromMergeTree")
            @@ "Statistics" :> DictV("row_count" :> StrV("many") @@ "rows" :> FloatV("2.5")))),
    DictV("Plan" :> DictV("Node Type" :> StrV("ReadFromMergeTree")
            @@ "Statistics" :> DictV("row_count" :> FloatV("inf")))),
    \* limits that are no integers
    DictV("Plan" :> DictV("Node Type" :> StrV("Sorting") @@ "Limit" :> StrV("all"))),
    DictV("Plan" :> DictV("Node Type" :> StrV("Sorting") @@ "Limit" :> StrV("15"))),
    DictV("Plan" :> DictV("Node Type" :> StrV("Limit") @@ "Limit" :> StrV("all")
            @@ "Plans" :> ListV(<< DictV("Node Type" :> StrV("Filter")) >>))),
    \* steps with and without an id of their own
    DictV("Plan" :> DictV("Node Type" :> StrV("Union") @@ "Plans" :> ListV(<<
            DictV("Node Type" :> StrV("ReadFromMergeTree")),
            DictV("Node Type" :> StrV("Filter") @@ "PlanNodeId" :> IntV(7)) >>))) }

\* a showplan document around one RelOp
ShowPlan(relop) ==
  Element("ShowPlanXML", NoAttrib, << Element("QueryPlan", NoAttrib, <<relop>>) >>)

\* a Hash Match join over a Table Scan
HashMatchJoin ==
  Element("RelOp", "PhysicalOp" :> "Hash Match" @@ "LogicalOp" :> "Inner Join",
          << Element("RelOp", "PhysicalOp" :> "Table Scan" @@ "LogicalOp" :> "Table Scan", <<>>) >>)

\* showplan documents of SQL Server
XmlCases ==
  { HashMatchJoin,
    ShowPlan(HashMatchJoin),
    ShowPlan(Element("RelOp", "PhysicalOp" :> "Hash Match" @@ "LogicalOp" :> "Aggregate"
                              @@ "NodeId" :> "3", <<>>)),
    ShowPlan(Element("RelOp", "PhysicalOp" :> "Hash Match" @@ "LogicalOp" :> "Partial Aggregate",
                     << Element("RelOp", "PhysicalOp" :> "Hash Match"
                                         @@ "LogicalOp" :> "Left Semi Join", <<>>) >>)),
    ShowPlan(Element("RelOp", "LogicalOp" :> "Inner Join", <<>>)),
    ShowPlan(Element("RelOp", NoAttrib, <<>>)),
    ShowPlan(Element("StmtSimple", NoAttrib, <<>>)) }

\* a plan row of SHOWPLAN_ALL
PlanRow(NodeId, Parent, PhysicalOp, LogicalOp) ==
  Row("NodeId" :> IntV(NodeId) @@ "Parent" :> IntV(Parent)
      @@ "PhysicalOp" :> PhysicalOp @@ "LogicalOp" :> LogicalOp)

\* Scenario C: a Sort over a Table Scan, rows with NodeId, Parent and
\* PhysicalOp and nothing in their other columns
ScenarioC ==
  << PlanRow(1, 0, StrV("Sort"), None), PlanRow(2, 1, StrV("Table Scan"), None) >>

\* row sets of SQL Server
RowCases ==
  { ScenarioC,
    \* the same plan with the LogicalOp column filled
    << PlanRow(1, 0, StrV("Sort"), StrV("Sort")),
       PlanRow(2, 1, StrV("Table Scan"), StrV("Table Scan")) >>,
    \* hash aggregate over a hash join of two scans
    << PlanRow(1, 0, StrV("Hash Match"), StrV("Aggregate")),
       PlanRow(2, 1, StrV("Hash Match"), StrV("Inner Join")),
       PlanRow(3, 2, StrV("Table Scan"), StrV("Table Scan")),
       PlanRow(4, 2, StrV("Index Seek"), StrV("Index Seek")) >>,
    \* an exchange over a Sort
    << PlanRow(1, 0, StrV("Parallelism"), StrV("Gather Streams")),
       PlanRow(2, 1, StrV("Sort"), StrV("Sort")) >>,
    \* a step without operator names
    << PlanRow(1, 0, None, None) >>,
    << PlanRow(1, 0, StrV(""), StrV("")) >>,
    \* the statement row alone
    << StatementRow >>,
    \* two rows that name each other as Parent, and a row that names itself
    << PlanRow(1, 2, StrV("Sort"), StrV("Sort")),
       PlanRow(2, 1, StrV("Table Scan"), StrV("Table Scan")) >>,
    << PlanRow(1, 1, StrV("Sort"), StrV("Sort")) >>,
    \* a row whose Parent is the NodeId of no row, and a second row with Parent 0
    << PlanRow(1, 0, StrV("Sort"), StrV("Sort")),
       PlanRow(2, 7, StrV("Table Scan"), StrV("Table Scan")),
       PlanRow(3, 0, StrV("Index Seek"), StrV("Index Seek")) >> }

\* operator names for create_empty_operator
OperatorNames ==
  { "Hash Match Aggregate", "Merge Join Aggregate", "Nested Loops Aggregate",
    "Adaptive Join Aggregate", "Sort Merge Join Aggregate", "Hash Aggregate",
    "Stream Aggregate", "Hash Match", "Merge Join", "Adaptive Join", "Top", "Segment",
    "ArrayJoin", "array join", "Union", "Filter" }

\* operators for fill, fresh from their constructors
EmptyOperators ==
  { TableScan(IntV(1)), Select(IntV(1)), Map(IntV(1)), Sort(IntV(1)), GroupBy(IntV(1)),
    Join(IntV(1)), SetOperation(IntV(1)), ArrayUnnest(IntV(1)),
    CustomOperator(StrV("Limit"), IntV(1)), CustomOperator(StrV("Top"), IntV(1)) }

\* raw nodes for fill: one without any field, one with the fields of every engine
RawNodes ==
  { EmptyDict,
    DictV("tablename" :> StrV("t") @@ "tableSize" :> IntV(5)
          @@ "debugName" :> DictV("value" :> StrV("t"))
          @@ "Node Type" :> StrV("Seq Scan") @@ "Relation Name" :> StrV("t")
          @@ "Strategy" :> StrV("Hashed") @@ "Join Type" :> StrV("Inner")
          @@ "extra_info" :> DictV("Table" :> StrV("t") @@ "Join Type" :> StrV("INNER"))
          @@ "operator_type" :> StrV("HASH_JOIN") @@ "physicalOperator" :> StrV("hashjoin")
          @@ "method" :> StrV("hash") @@ "operator" :> StrV("join")
          @@ "operation" :> StrV("unionall") @@ "limit" :> IntV(3)) }

\* a call of a method with its arguments
Call(method, args) == [t |-> "call", method |-> method, args |-> args]

InitCases ==
  /\ \/ engine = "ClickHouse" /\ payload \in ClickHouseCases
     \/ engine = "SQLServerXml" /\ \E d \in XmlCases : payload = [t |-> "xml", v |-> d]
     \/ engine = "SQLServerRows" /\ \E rows \in RowCases : payload = ListV(rows)
     \/ /\ engine \in {"ClickHouse", "SQLServer"}
        /\ \E name \in OperatorNames :
             payload = Call("create_empty_operator", <<StrV(name), IntV(1)>>)
     \/ /\ engine \in DBMSType
        /\ \E op \in EmptyOperators, plan \in RawNodes : payload = Call("fill", <<op, plan>>)
  /\ phase = IF payload.t = "call" THEN "call" ELSE "assemble"
  /\ query = ""
  /\ parser = NoParser
  /\ result = NoResult
  /\ ServerOff

\* create_empty_operator(operator_name, operator_id) of the engine's parser
CreateEmptyOperator ==
  /\ phase = "call"
  /\ payload.method = "create_empty_operator"
  /\ result' = [err |-> "",
                plan |-> IF engine = "ClickHouse"
                           THEN ClickHouse_create_empty_operator(payload.args[1], payload.args[2])
                           ELSE SQLServer_create_empty_operator(payload.args[1].v,
                                                                payload.args[2])]
  /\ phase' = "returned"
  /\ UNCHANGED <<engine, payload, query, parser>>
  /\ UNCHANGED serverVars

\* operator.fill(plan, dbms_type)
Fill ==
  /\ phase = "call"
  /\ payload.method = "fill"
  /\ \E r \in {fill_call(payload.args[1], payload.args[2], engine)} :
       result' = [err |-> r.err, plan |-> r.op]
  /\ phase' = "returned"
  /\ UNCHANGED <<engine, payload, query, parser>>
  /\ UNCHANGED serverVars

\* parse_json_plan of a parser that sets its op_counter to 0 before it builds
ParseWith_counter_reset(q, ctr, include) ==
  IF engine = "ClickHouse" THEN ClickHouse_parse_json_plan(q, payload, 0, include)
  ELSE SQLServer_parse_json_plan(q, payload, 0, include)

\* parse_json_plan of the engine's parser, started with its op_counter at ctr
ParseWith(q, ctr, include) ==
  IF engine = "ClickHouse" THEN ClickHouse_parse_json_plan(q, payload, ctr, include)
  ELSE SQLServer_parse_json_plan(q, payload, ctr, include)

\* parse_json_plan(query, payload): the first parse is by a fresh parser; the
\* second parse of the same payload is by another fresh parser, or by the
\* parser of the first parse, whose op_counter stands where that parse left it
ParseJsonPlan ==
  /\ phase \in {"assemble", "parsed"}
  /\ \E q \in (IF phase = "assemble" THEN Queries ELSE {query}),
        include \in (IF phase = "assemble" THEN BOOLEAN
                                          ELSE {parser.include_system_representation}),
        reuse \in (IF phase = "assemble" THEN {FALSE} ELSE BOOLEAN) :
       /\ \E r \in {ParseWith(q, IF reuse THEN parser.op_counter ELSE 0, include)} :
            /\ parser' = [op_counter |-> r.ctr, include_system_representation |-> include]
            /\ result' = [err |-> r.err, plan |-> r.plan]
       /\ query' = q
       /\ phase' = IF phase = "assemble" THEN "parsed"
                   ELSE IF reuse THEN "parsed again, same parser"
                   ELSE "parsed again, fresh parser"
  /\ UNCHANGED <<engine, payload>>
  /\ UNCHANGED serverVars

NextCases ==
  \/ ParseJsonPlan
  \/ CreateEmptyOperator
  \/ Fill

Cases == InitCases /\ [][NextCases]_vars

(***************************************************************************)
(* Canonical trees and the raw nodes behind them.                          *)
(***************************************************************************)
\* parse_json_plan returned a QueryPlan
Success == phase = "parsed" /\ result.err = ""

\* the root of the returned plan
Root == result.plan.plan

\* the nodes of the tree below and including node
RECURSIVE NodesOf(_)
NodesOf(node) ==
  {node} \cup UNION {NodesOf(node.children[i]) : i \in 1..Len(node.children)}

\* the canonical nodes below the Result root
Canonical == UNION {NodesOf(Root.children[i]) : i \in 1..Len(Root.children)}

\* the rows that _build_from_rows keeps, by NodeId
RowMap == SQLServer_node_map(SQLServer_plan_rows(payload.v))

\* the places of the raw operators of the payload
RawPlaces ==
  CASE engine = "ClickHouse"    -> ClickHousePaths(ClickHouseTop)
    [] engine = "SQLServerXml"  -> XmlRelOpPaths(payload.v)
    [] engine = "SQLServerRows" -> {<<RowMap[k].nid>> : k \in 1..Len(RowMap)}

\* the places of the raw children of the raw operator at place src, in order
RawChildren(src) ==
  CASE engine = "ClickHouse" ->
         [i \in 1..Len(ClickHouse_extract_children(ClickHouseNodeAt(ClickHouseTop, src))) |->
            src \o <<i>>]
    [] engine = "SQLServerXml" ->
         LET rel == SQLServer_extract_children(ElementAt(payload.v, src))
         IN  [i \in 1..Len(rel) |-> src \o rel[i]]
    [] engine = "SQLServerRows" ->
         LET ids == SQLServer_children_ids(RowMap, src[1])
         IN  [i \in 1..Len(ids) |-> <<ids[i]>>]

\* the name of the raw operator at place src, lower-cased: the operator name
\* of a ClickHouse node, the PhysicalOp of a RelOp or of a row
RawName(src) ==
  CASE engine = "ClickHouse" ->
         lower(PyStr(ClickHouse_extract_operator_name(ClickHouseNodeAt(ClickHouseTop, src))))
    [] engine = "SQLServerXml" ->
         lower(PyStr(Attr(ElementAt(payload.v, src), "PhysicalOp")))
    [] engine = "SQLServerRows" ->
         lower(PyStr(SQLServer_info(RowMap, src[1])["PhysicalOp"]))

\* a transparent wrapper: an Expression node of ClickHouse, a Parallelism
\* operator of SQL Server
IsWrapper(src) ==
  IF engine = "ClickHouse" THEN startswith(RawName(src), "expression")
  ELSE startswith(RawName(src), "parallelism")

\* a wrapper with exactly one child
IsSingleChildWrapper(src) == IsWrapper(src) /\ Len(RawChildren(src)) = 1

\* the place of the engine's top-level operator: the top node of the
\* ClickHouse plan, the outermost RelOp of the document, the root row
TopPlace ==
  CASE engine = "ClickHouse" -> <<>>
    [] engine = "SQLServerXml" ->
         IF payload.v.tag = "RelOp" THEN <<>>
         ELSE FindDescendant(payload.v, "RelOp", <<>>, 1).path
    [] engine = "SQLServerRows" -> <<SQLServer_root_id(RowMap).v>>

\* the flag of the parser that made the plan
Include == parser.include_system_representation

\* the node a fresh parser builds from the raw operator at place src, when
\* its op_counter stands at ctr
BuiltFrom(src, ctr) ==
  CASE engine = "ClickHouse" ->
         ClickHouse_build_[<<ClickHouseNodeAt(ClickHouseTop, src), src, ctr, Include>>].node
    [] engine = "SQLServerXml" ->
         SQLServer_build_relop_[<<ElementAt(payload.v, src), src, ctr, Include>>].node
    [] engine = "SQLServerRows" ->
         SQLServer_build_node_[<<RowMap, src[1], 1, Include>>].node

\* the raw place that position i below the canonical node stands for
PlaceOfChild(node, i) == IF node = Root THEN TopPlace ELSE RawChildren(node.src)[i]

\* the statistics of a ClickHouse raw node
ClickHouseStatistics(src) ==
  Or(Or(Get(ClickHouseNodeAt(ClickHouseTop, src), "Statistics"),
        Get(ClickHouseNodeAt(ClickHouseTop, src), "statistics")), EmptyDict)

\* the raw operator at src carries an exact row count
RawHasExact(src) ==
  CASE engine = "ClickHouse" ->
         \E k \in {"rows", "rows_before_limit", "output_rows"} : HasKey(ClickHouseStatistics(src), k)
    [] engine = "SQLServerXml"  -> "ActualRows" \in DOMAIN ElementAt(payload.v, src).attrib
    [] engine = "SQLServerRows" -> ~IsNone(SQLServer_info(RowMap, src[1])["Rows"])

\* the raw operator at src carries an estimated row count
RawHasEstimate(src) ==
  CASE engine = "ClickHouse" ->
         \E k \in {"row_count", "estimated_rows", "rowCount", "rows_before_limit_at_least"} :
            HasKey(ClickHouseStatistics(src), k)
    [] engine = "SQLServerXml"  -> "EstimateRows" \in DOMAIN ElementAt(payload.v, src).attrib
    [] engine = "SQLServerRows" -> ~IsNone(SQLServer_info(RowMap, src[1])["EstimateRows"])

\* the operator name that build hands to create_empty_operator for the raw
\* operator at src
GivenName(src) ==
  CASE engine = "ClickHouse" ->
         IF IsWrapper(src) THEN "Map"
         ELSE PyStr(ClickHouse_extract_operator_name(ClickHouseNodeAt(ClickHouseTop, src)))
    [] engine = "SQLServerXml" ->
         LET physical == GetOr(DictV(ElementAt(payload.v, src).attrib), "PhysicalOp", "Unknown")
         IN  SQLServer_decide_operator_name(physical,
               GetOr(DictV(ElementAt(payload.v, src).attrib), "LogicalOp", physical))
    [] engine = "SQLServerRows" ->
         SQLServer_decide_operator_name(SQLServer_info(RowMap, src[1])["PhysicalOp"].v,
                                        SQLServer_info(RowMap, src[1])["LogicalOp"].v)

\* the taxonomy of each parser: a name is taken by a rule when, lower-cased,
\* it starts with one of the prefixes, contains one of the infixes or is one
\* of the whole names
TaxonomyPrefixes ==
  IF engine = "ClickHouse"
    THEN {"read", "aggregating", "group", "sorting", "order by", "filter", "limit",
          "projection", "expression"}
    ELSE {"table scan", "index scan", "index seek", "clustered index", "sort", "filter",
          "compute", "hash match", "merge join", "nested loops", "top", "concat"}

TaxonomyInfixes == IF engine = "ClickHouse" THEN {" sort", "join"} ELSE {"join", "aggregate"}

TaxonomyNames ==
  IF engine = "ClickHouse" THEN {"arrayjoin", "array join", "union", "intersect", "except"}
  ELSE {}

MatchesNoRule(name) ==
  /\ \A x \in TaxonomyPrefixes : ~startswith(lower(name), x)
  /\ \A x \in TaxonomyInfixes : ~contains(lower(name), x)
  /\ lower(name) \notin TaxonomyNames

\* the raw ClickHouse node at src resolves to the CustomOperator named "Limit"
IsLimit(src) ==
  LET op == ClickHouse_create_empty_operator(
              ClickHouse_extract_operator_name(ClickHouseNodeAt(ClickHouseTop, src)), None)
  IN  op.operator_type = "CustomOperator" /\ op.name = StrV("Limit")

\* the limit value of the raw Limit node at src: that of its first limit key
RawLimit(src) ==
  LET raw == ClickHouseNodeAt(ClickHouseTop, src)
      i == FirstKey(<<"Limit", "limit", "rows_limit", "RowsRead">>, DOMAIN raw.v)
  IN  IF i = 0 THEN None ELSE raw.v[<<"Limit", "limit", "rows_limit", "RowsRead">>[i]]

(***************************************************************************)
(* Properties.                                                             *)
(***************************************************************************)
\* C1: every successful parse returns a plan whose root is an InnerNode with
\* the operator Result of id -1 and exactly one child, the node built from the
\* engine's top-level operator, and whose text is the query passed in.
C1_RootOverTopLevelOperator ==
  Success =>
    /\ Root.kind = "InnerNode"
    /\ Root.operator = Result(IntV(-1))
    /\ Len(Root.children) = 1
    /\ Root.children[1] = BuiltFrom(TopPlace, 0)
    /\ result.plan.text = query

\* C2: every node below the root is a LeafNode exactly when the raw operator
\* it was built from has no extracted children; otherwise it is an InnerNode
\* with a non-empty list of children.
C2_LeafIffNoRawChildren ==
  Success =>
    \A n \in Canonical :
      /\ n.kind \in {"LeafNode", "InnerNode"}
      /\ n.kind = "LeafNode" <=> Len(RawChildren(n.src)) = 0
      /\ n.kind = "InnerNode" <=> Len(n.children) > 0

\* a parse in which a leaf stands where a single-child wrapper was, below an
\* inner node
C2_Witness ==
  /\ Success
  /\ \E n \in Canonical : \E i \in 1..Len(n.children) :
       /\ IsSingleChildWrapper(PlaceOfChild(n, i))
       /\ n.children[i].kind = "LeafNode"

\* C3: a node whose raw operator carries no exact row count has
\* exact_cardinality equal to estimated_cardinality; when the raw operator
\* carries no estimated row count either, both are None.
C3_ExactDefaultsToEstimated ==
  Success =>
    \A n \in Canonical :
      /\ ~RawHasExact(n.src) => n.exact_cardinality = n.estimated_cardinality
      /\ (~RawHasExact(n.src) /\ ~RawHasEstimate(n.src)) =>
           (IsNone(n.exact_cardinality) /\ IsNone(n.estimated_cardinality))

\* a parse with a node that takes its exact count from the estimate and a node
\* that has neither count
C3_Witness ==
  /\ Success
  /\ \E n \in Canonical :
       ~RawHasExact(n.src) /\ RawHasEstimate(n.src) /\ IsInt(n.exact_cardinality)
  /\ \E n \in Canonical : ~RawHasExact(n.src) /\ ~RawHasEstimate(n.src)

\* C4: the operator ids of one canonical tree are pairwise distinct and none
\* of them is -1, the id of the Result root.
C4_OperatorIdsDistinct ==
  Success =>
    \A n \in Canonical :
      /\ n.operator.operator_id # IntV(-1)
      /\ \A m \in Canonical : m # n => m.operator.operator_id # n.operator.operator_id

\* C5: an operator name that no taxonomy rule takes gives a CustomOperator
\* whose name is that name, unchanged.
C5_UnmatchedNameIsCustomOperator ==
  Success =>
    \A n \in Canonical :
      MatchesNoRule(GivenName(n.src)) =>
        /\ n.operator.operator_type = "CustomOperator"
        /\ n.operator.name = StrV(GivenName(n.src))

\* a parse with a node whose mixed-case name no rule takes
C5_Witness ==
  /\ Success
  /\ \E n \in Canonical :
       /\ MatchesNoRule(GivenName(n.src))
       /\ lower(GivenName(n.src)) # GivenName(n.src)
       /\ n.operator.name = StrV(GivenName(n.src))

\* C6: a raw ClickHouse node that resolves to the CustomOperator "Limit" and
\* has a single child whose built node is a Sort is replaced by that Sort, the
\* Sort's limit is the Limit's limit value, and no node stands for the Limit.
C6_LimitMergedIntoSort ==
  (engine = "ClickHouse" /\ Success) =>
    \A src \in RawPlaces :
      (/\ IsLimit(src)
       /\ Len(RawChildren(src)) = 1
       /\ BuiltFrom(src \o <<1>>, 0).operator.operator_type = "Sort") =>
        /\ BuiltFrom(src, 0).operator.operator_type = "Sort"
        /\ BuiltFrom(src, 0).src = BuiltFrom(src \o <<1>>, 0).src
        /\ BuiltFrom(src, 0).operator.limit = LimitOf(RawLimit(src))
        /\ \A n \in Canonical : n.src # src

\* C7: a ClickHouse Expression node with exactly one child is not in the
\* canonical tree, and the node built from its child stands where it would be.
C7_ExpressionWrapperElided ==
  (engine = "ClickHouse" /\ Success) =>
    /\ \A n \in Canonical : ~IsSingleChildWrapper(n.src)
    /\ \A n \in Canonical \cup {Root} : \A i \in 1..Len(n.children) :
         IsSingleChildWrapper(PlaceOfChild(n, i)) =>
           \E ctr \in 0..parser.op_counter :
             n.children[i] = BuiltFrom(PlaceOfChild(n, i) \o <<1>>, ctr)

\* a parse of a chain of two Expression wrappers over an operator
C7_Witness ==
  /\ engine = "ClickHouse" /\ Success
  /\ IsSingleChildWrapper(<<>>) /\ IsSingleChildWrapper(<<1>>)
  /\ Root.children[1].src = <<1, 1>>

\* C8: a plan row whose PhysicalOp starts with "parallelism" and that has
\* exactly one child is not in the canonical tree, and the node built from
\* its child stands where it would be, also when it is the root row.
C8_ParallelismRowElided ==
  (engine = "SQLServerRows" /\ Success) =>
    /\ \A n \in Canonical : ~IsSingleChildWrapper(n.src)
    /\ \A n \in Canonical \cup {Root} : \A i \in 1..Len(n.children) :
         IsSingleChildWrapper(PlaceOfChild(n, i)) =>
           n.children[i] = BuiltFrom(RawChildren(PlaceOfChild(n, i))[1], 0)

\* a parse of rows whose root row is a Parallelism with one child
C8_Witness ==
  /\ engine = "SQLServerRows" /\ Success
  /\ IsSingleChildWrapper(TopPlace)
  /\ Root.children[1].src = RawChildren(TopPlace)[1]

\* C9: a RelOp whose PhysicalOp starts with "parallelism" and that has exactly
\* one child RelOp is not in the canonical tree of an XML parse.
C9_ParallelismRelOpElided ==
  (engine = "SQLServerXml" /\ Success) =>
    \A n \in Canonical : ~IsSingleChildWrapper(n.src)

\* C10: a ClickHouse Expression node without children is kept as a leaf whose
\* operator is of type Map.
C10_ChildlessExpressionIsMap ==
  (engine = "ClickHouse" /\ Success) =>
    \A n \in Canonical :
      (IsWrapper(n.src) /\ Len(RawChildren(n.src)) = 0) =>
        (n.kind = "LeafNode" /\ n.operator.operator_type = "Map")

\* the LogicalOp of the raw operator at place src as build reads it,
\* lower-cased: a RelOp without the attribute has its PhysicalOp for it
RawLogical(src) ==
  CASE engine = "SQLServerXml" ->
         lower(GetOr(DictV(ElementAt(payload.v, src).attrib), "LogicalOp",
                     GetOr(DictV(ElementAt(payload.v, src).attrib), "PhysicalOp", "Unknown")))
    [] engine = "SQLServerRows" ->
         lower(PyStr(SQLServer_info(RowMap, src[1])["LogicalOp"]))

\* a parse of SQL Server returned a QueryPlan
SQLServerSuccess == engine \in {"SQLServerXml", "SQLServerRows"} /\ Success

\* create_empty_operator of the SQL Server parser has returned
SQLServerCreated ==
  phase = "returned" /\ payload.method = "create_empty_operator" /\ engine = "SQLServer"

\* the name has "aggregate" and a join term in it
AggregateAndJoinTerm(name) ==
  /\ contains(lower(name), "aggregate")
  /\ \E term \in {"hash match", "merge join", "nested loops", "join"} :
       contains(lower(name), term)

\* the name is taken by a rule that stands before the join rule
TakenBeforeJoin(name) ==
  \E prefix \in {"table scan", "index scan", "index seek", "clustered index",
                 "sort", "filter", "compute"} : startswith(lower(name), prefix)

\* a Hash Match node whose LogicalOp has "aggregate" in it is a GroupBy of
\* method hash, any other Hash Match node is a Join
HashMatchResolved ==
  SQLServerSuccess =>
    \A n \in Canonical :
      startswith(RawName(n.src), "hash match") =>
        IF contains(RawLogical(n.src), "aggregate")
          THEN n.operator.operator_type = "GroupBy" /\ n.operator.method = StrV("hash")
          ELSE n.operator.operator_type = "Join"

\* C11: a node whose PhysicalOp starts with "hash match" is a GroupBy of
\* method hash when its LogicalOp contains "aggregate" and a Join when not;
\* a name with "aggregate" and a join term in it that no rule before the
\* join rule takes gives a GroupBy.
C11_AggregateBeforeJoin ==
  /\ HashMatchResolved
  /\ SQLServerCreated =>
       ((AggregateAndJoinTerm(payload.args[1].v) /\ ~TakenBeforeJoin(payload.args[1].v))
          => result.plan.operator_type = "GroupBy")

\* C11 as stated: every name with "aggregate" and a join term in it gives a
\* GroupBy
C11_AsStated ==
  /\ HashMatchResolved
  /\ SQLServerCreated =>
       (AggregateAndJoinTerm(payload.args[1].v) => result.plan.operator_type = "GroupBy")

\* a parse with a hash aggregate over a hash join
C11_Witness ==
  /\ SQLServerSuccess
  /\ \E n \in Canonical :
       /\ startswith(RawName(n.src), "hash match")
       /\ contains(RawLogical(n.src), "aggregate")
       /\ n.operator.operator_type = "GroupBy"
       /\ \E i \in 1..Len(n.children) :
            /\ startswith(RawName(n.children[i].src), "hash match")
            /\ n.children[i].operator.operator_type = "Join"

\* C12: SQLServerParser.parse_json_plan raises exactly when the payload has
\* no root-bearing node: a document without any RelOp element, rows of which
\* none is a plan step; with a RelOp element (the outermost element of the
\* document included) or a plan row, it returns a QueryPlan.
C12_FailsExactlyWithoutRootNode ==
  (engine \in {"SQLServerXml", "SQLServerRows"} /\ phase = "parsed") =>
    (result.err # "" <=> RawPlaces = {})

\* C13: fill never raises on a raw node without the engine's fields, for every
\* operator and every engine tag; each semantic field whose raw field is
\* absent is None afterwards (the method of a GroupBy of Umbra and Hyper is
\* read from no raw field: it is "hash").
C13_FillNeverRaises ==
  (phase = "returned" /\ payload.method = "fill") =>
    /\ result.err = ""
    /\ (/\ payload.args[2] = EmptyDict
        /\ ~(payload.args[1].operator_type = "GroupBy" /\ engine \in {"Umbra", "Hyper"})) =>
         \A field \in DOMAIN result.plan \ {"operator_type", "operator_id", "name", "active"} :
           IsNone(result.plan[field])

\* the raw operator at place src has no operator name: a ClickHouse node none
\* of whose name keys holds a non-empty value, a RelOp without the attribute
\* PhysicalOp, a row whose PhysicalOp and LogicalOp are null or empty
Nameless(src) ==
  CASE engine = "ClickHouse" ->
         LET plan == ClickHouseNodeAt(ClickHouseTop, src)
         IN  /\ IsDict(plan)
             /\ \A i \in 1..Len(NameKeys) : ~Truthy(Get(plan, NameKeys[i]))
             /\ ~Truthy(Get(plan, "plan_node_name"))
    [] engine = "SQLServerXml" ->
         "PhysicalOp" \notin DOMAIN ElementAt(payload.v, src).attrib
    [] engine = "SQLServerRows" ->
         /\ ~Truthy(SQLServer_info(RowMap, src[1])["PhysicalOp"])
         /\ ~Truthy(SQLServer_info(RowMap, src[1])["LogicalOp"])

\* C14: the parse of a payload with a raw operator that has no operator name
\* does not raise, and the node of that raw operator has the CustomOperator
\* named "Unknown".
C14_NamelessIsUnknown ==
  phase = "parsed" =>
    \A src \in RawPlaces :
      Nameless(src) =>
        /\ result.err = ""
        /\ \A n \in Canonical :
             n.src = src => (/\ n.operator.operator_type = "CustomOperator"
                             /\ n.operator.name = StrV("Unknown"))

\* C15: cardinality extraction never raises: whatever a statistics field
\* holds, the parse goes on and each cardinality of a node is an integer or
\* None.
C15_CardinalitiesNeverRaise ==
  phase = "parsed" =>
    /\ engine = "ClickHouse" => result.err = ""
    /\ result.err = "" =>
         \A n \in Canonical :
           /\ IsNone(n.estimated_cardinality) \/ IsInt(n.estimated_cardinality)
           /\ IsNone(n.exact_cardinality) \/ IsInt(n.exact_cardinality)

\* C16: after fill the limit of a Sort and of a Limit or Top CustomOperator is
\* an integer or None: a raw limit that is no integer gives None.
C16_LimitIsIntegerOrNone ==
  /\ (phase = "parsed" /\ result.err = "") =>
       \A n \in Canonical :
         "limit" \in DOMAIN n.operator =>
           (IsNone(n.operator.limit) \/ IsInt(n.operator.limit))
  /\ (phase = "returned" /\ payload.method = "fill" /\ result.err = "") =>
       ("limit" \in DOMAIN result.plan =>
          (IsNone(result.plan.limit) \/ IsInt(result.plan.limit)))

\* C17: the parse of Scenario A gives Result -> GroupBy, the GroupBy node a
\* leaf with exact_cardinality 10 and estimated_cardinality 10; a node whose
\* statistics hold only the row count "rows" has both cardinalities equal to
\* that count.
C17_ScenarioA ==
  (engine = "ClickHouse" /\ phase = "parsed") =>
    /\ payload = ScenarioA =>
         /\ result.err = ""
         /\ Len(Root.children) = 1
         /\ Root.children[1].kind = "LeafNode"
         /\ Root.children[1].operator.operator_type = "GroupBy"
         /\ Root.children[1].exact_cardinality = IntV(10)
         /\ Root.children[1].estimated_cardinality = IntV(10)
    /\ result.err = "" =>
         \A n \in Canonical :
           (/\ DOMAIN ClickHouseStatistics(n.src).v = {"rows"}
            /\ IsInt(ClickHouseStatistics(n.src).v["rows"])) =>
             /\ n.exact_cardinality = ClickHouseStatistics(n.src).v["rows"]
             /\ n.estimated_cardinality = ClickHouseStatistics(n.src).v["rows"]

\* C18: Scenario B, a Hash Match RelOp of LogicalOp "Inner Join" over a Table
\* Scan RelOp, parses to Result -> Join(method hash, type inner) ->
\* TableScan(leaf), whether the RelOp is the document itself or stands in a
\* showplan envelope: the top-level operator is built from the outermost RelOp.
C18_ScenarioB ==
  (/\ engine = "SQLServerXml" /\ phase = "parsed"
   /\ payload.v \in {HashMatchJoin, ShowPlan(HashMatchJoin)}) =>
    /\ result.err = ""
    /\ Len(Root.children) = 1
    /\ Root.children[1].src = TopPlace
    /\ Root.children[1].kind = "InnerNode"
    /\ Root.children[1].operator.operator_type = "Join"
    /\ Root.children[1].operator.method = StrV("hash")
    /\ Root.children[1].operator.type = StrV("inner")
    /\ Len(Root.children[1].children) = 1
    /\ Root.children[1].children[1].kind = "LeafNode"
    /\ Root.children[1].children[1].operator.operator_type = "TableScan"

\* the RelOp element that says what the row node_id and the rows below it
\* say: PhysicalOp and LogicalOp as attributes where the row has them, the
\* rows that name it as Parent as child RelOps, in row order
RECURSIVE RelOpOfRow(_, _)
RelOpOfRow(node_map, node_id) ==
  LET info == SQLServer_info(node_map, node_id)
      given == {c \in {"PhysicalOp", "LogicalOp"} : IsStr(info[c])}
      children_ids == SQLServer_children_ids(node_map, node_id)
  IN  Element("RelOp", [c \in given |-> info[c].v],
              [i \in 1..Len(children_ids) |-> RelOpOfRow(node_map, children_ids[i])])

\* the shape of a canonical tree: the kind of each node and the type of its
\* operator, position by position
RECURSIVE Shape(_)
Shape(node) ==
  [kind |-> node.kind, operator_type |-> node.operator.operator_type,
   children |-> [i \in 1..Len(node.children) |-> Shape(node.children[i])]]

\* C19: rows and the showplan document of the same plan parse to canonical
\* trees of the same shape (operator type, children and their order, leaf or
\* inner, at every position); the rows of Scenario C give Result -> Sort ->
\* TableScan(leaf).
C19_RowsAndXmlSameShape ==
  (engine = "SQLServerRows" /\ phase = "parsed" /\ RawPlaces # {}) =>
    /\ result.err = ""
    /\ \E xml \in {SQLServer_parse_json_plan(query,
                     [t |-> "xml", v |-> ShowPlan(RelOpOfRow(RowMap, TopPlace[1]))],
                     0, Include)} :
         xml.err = "" /\ Shape(xml.plan.plan) = Shape(Root)
    /\ payload.v = ScenarioC =>
         Shape(Root) =
           [kind |-> "InnerNode", operator_type |-> "Result", children |-> <<
             [kind |-> "InnerNode", operator_type |-> "Sort", children |-> <<
               [kind |-> "LeafNode", operator_type |-> "TableScan", children |-> <<>>] >>] >>]

\* the raw operator at place src carries an id of its own: _extract_operator_id
\* returns it and leaves op_counter as it is
OwnId(src) ==
  CASE engine = "ClickHouse" ->
         ClickHouse_extract_operator_id(ClickHouseNodeAt(ClickHouseTop, src), 0).ctr = 0
    [] engine = "SQLServerXml" ->
         SQLServer_extract_operator_id(ElementAt(payload.v, src), 0).ctr = 0
    [] engine = "SQLServerRows" -> TRUE

\* the operator ids of a canonical tree, position by position
RECURSIVE Ids(_)
Ids(node) ==
  [operator_id |-> node.operator.operator_id,
   children |-> [i \in 1..Len(node.children) |-> Ids(node.children[i])]]

\* the canonical tree with every id that came from op_counter larger by `by`
RECURSIVE Renumbered(_, _)
Renumbered(node, by) ==
  [node EXCEPT
     !.operator.operator_id = IF node.operator.operator_type = "Result" \/ OwnId(node.src)
                                THEN @ ELSE IntV(@.v + by),
     !.children = [i \in 1..Len(node.children) |-> Renumbered(node.children[i], by)]]

\* C20: a second parse of the same payload by a fresh parser returns what the
\* first parse returned, the same operator id at every position; a second
\* parse by the parser of the first parse returns the same tree with the same
\* ids where the raw operators carry ids of their own, and every id taken from
\* op_counter larger by the value op_counter had after the first parse.
C20_IdsOfSecondParse ==
  [][phase = "parsed" =>
       /\ phase' = "parsed again, fresh parser" => result' = result
       /\ phase' = "parsed again, same parser" =>
            result' = IF result.err # "" THEN result
                      ELSE [result EXCEPT !.plan.plan = Renumbered(@, parser.op_counter)]]_vars

\* C20 as stated: a second parse of the same payload gives the same operator
\* id at every position, by a fresh parser and by the parser of the first parse
C20_AsStated ==
  [][(phase = "parsed" /\ phase' # "parsed" /\ result.err = "") =>
       /\ result'.err = ""
       /\ Ids(result'.plan.plan) = Ids(result.plan.plan)]_vars

\* a second parse by the parser of the first parse, of a payload with a raw
\* operator that carries its id and one that takes it from op_counter
C20_Witness ==
  /\ phase = "parsed again, same parser" /\ result.err = ""
  /\ \E n \in Canonical : OwnId(n.src)
  /\ \E n \in Canonical :
       ~OwnId(n.src) /\ n.operator.operator_id.v > 0
                     /\ 2 * n.operator.operator_id.v >= parser.op_counter

(***************************************************************************)
(* The HTTP server (server.py).  setup_dbms has registered the instances   *)
(* and app.run serves requests on request threads; cleanup_dbms runs on    *)
(* the main thread when app.run returns, while request threads may still   *)
(* be inside their handlers.                                               *)
(***************************************************************************)
\* the most requests the server accepts in a run of the model
MaxRequests == 2

\* the request threads
Threads == {"t1", "t2"}

\* the titles setup_dbms registers: two ClickHouse instances and the optimizer
Titles == {"clickhouse-24", "clickhouse-25", "umbra"}

optimizer_dbms_name == "umbra"

\* the instances whose retrieve_query_plan is ClickHouse.retrieve_query_plan
IsClickHouse(title) == title \in {"clickhouse-24", "clickhouse-25"}

\* json.loads(text_plan)[0] of the EXPLAIN the ClickHouse instances answer with
PlanJson ==
  DictV("Plan" :> DictV("Node Type" :> StrV("Union") @@ "Plans" :> ListV(<<
          DictV("Node Type" :> StrV("ReadFromMergeTree") @@ "PlanNodeId" :> IntV(7)),
          DictV("Node Type" :> StrV("ReadFromMergeTree")) >>)))

\* a request thread that has no request
IdleThread ==
  [pc |-> "idle", kind |-> "", dbms_name |-> "", dbms |-> "", query_lock |-> "",
   plan_parser |-> 0, todo |-> <<>>, ids |-> <<>>, served |-> 0, response |-> 0]

\* the requests accepted so far by the threads of S
RECURSIVE Served(_)
Served(S) ==
  IF S = {} THEN 0
  ELSE LET t == CHOOSE x \in S : TRUE IN threads[t].served + Served(S \ {t})

\* the places of the raw operators below and including the one at path, in the
\* order in which _build_operator_tree reaches them
RECURSIVE PreOrder(_, _)
PreOrder(plan, path) ==
  LET kids == ClickHouse_extract_children(ClickHouseNodeAt(plan, path))
      Below[i \in 0..Len(kids)] ==
        IF i = 0 THEN <<>> ELSE Below[i - 1] \o PreOrder(plan, path \o <<i>>)
  IN  <<path>> \o Below[Len(kids)]

\* a retrieval that shares the first parser instance there is
ClickHouseParser_shared(pool) ==
  IF Len(pool) = 0 THEN [pool |-> <<[op_counter |-> 0, used_by |-> {}]>>, at |-> 1]
  ELSE [pool |-> pool, at |-> 1]

\* plan_parser = ClickHouseParser(...): a new instance, its op_counter 0
ClickHouseParser_new(pool) ==
  [pool |-> Append(pool, [op_counter |-> 0, used_by |-> {}]), at |-> Len(pool) + 1]

\* a lock that lets every thread in
Lock_acquire_unguarded(owner, title) == TRUE

\* threading.Lock: `with query_lock` enters only when nobody holds the lock
Lock_acquire(owner, title) == owner[title] = "free"

InitServer ==
  /\ engine = "ClickHouse"
  /\ payload = PlanJson
  /\ phase = "served"
  /\ query = "q"
  /\ parser = NoParser
  /\ result = NoResult
  /\ active_dbms = Titles
  /\ dbms_locks = [keys |-> Titles, owner |-> [title \in Titles |-> "free"]]
  /\ dbms_lock = "free"
  /\ exited = {}
  /\ threads = [t \in Threads |-> IdleThread]
  /\ parsers = <<>>
  /\ cleanup = [pc |-> "serving", todo |-> {}]

\* a request arrives: POST /query, /plan or /optimize
Request(t) ==
  /\ threads[t].pc = "idle"
  /\ cleanup.pc # "done"
  /\ Served(Threads) < MaxRequests
  /\ \E kind \in {"query", "plan", "optimize"}, name \in Titles :
       threads' = [threads EXCEPT ![t] =
                     [IdleThread EXCEPT !.pc = "lookup", !.kind = kind,
                        !.dbms_name = IF kind = "optimize" THEN optimizer_dbms_name ELSE name,
                        !.served = threads[t].served + 1]]
  /\ UNCHANGED <<active_dbms, dbms_locks, dbms_lock, exited, parsers, cleanup>>
  /\ UNCHANGED parserVars

\* with dbms_lock: 404 when the name is not active, else take the instance and its lock
Lookup(t) ==
  /\ threads[t].pc = "lookup"
  /\ dbms_lock = "free"
  /\ threads' = [threads EXCEPT ![t] =
                   IF threads[t].dbms_name \notin active_dbms
                     THEN [@ EXCEPT !.pc = "idle", !.response = 404]
                   ELSE [@ EXCEPT !.pc = "acquire", !.dbms = threads[t].dbms_name,
                                  !.query_lock = threads[t].dbms_name]]
  /\ UNCHANGED <<active_dbms, dbms_locks, dbms_lock, exited, parsers, cleanup>>
  /\ UNCHANGED parserVars

\* with query_lock: the thread waits until the lock is free and takes it
Acquire(t) ==
  /\ threads[t].pc = "acquire"
  /\ Lock_acquire(dbms_locks.owner, threads[t].query_lock)
  /\ dbms_locks' = [dbms_locks EXCEPT !.owner[threads[t].query_lock] = t]
  /\ threads' = [threads EXCEPT ![t].pc = "execute"]
  /\ UNCHANGED <<active_dbms, dbms_lock, exited, parsers, cleanup>>
  /\ UNCHANGED parserVars

\* dbms._execute, optimizer.plan_query, or the retrieve_query_plan of an instance
\* that is no ClickHouse: the call returns or raises
Execute(t) ==
  /\ threads[t].pc = "execute"
  /\ threads[t].kind = "plan" => ~IsClickHouse(threads[t].dbms)
  /\ \E response \in {200, 500} :
       threads' = [threads EXCEPT ![t].pc = "release", ![t].response = response]
  /\ UNCHANGED <<active_dbms, dbms_locks, dbms_lock, exited, parsers, cleanup>>
  /\ UNCHANGED parserVars

\* ClickHouse.retrieve_query_plan up to the construction of the parser: the
\* EXPLAIN gives no plan and the subscript raises, or the parser is constructed
RetrievePlan(t) ==
  /\ threads[t].pc = "execute"
  /\ threads[t].kind = "plan"
  /\ IsClickHouse(threads[t].dbms)
  /\ \/ /\ threads' = [threads EXCEPT ![t].pc = "release", ![t].response = 500]
        /\ UNCHANGED parsers
     \/ \E made \in {ClickHouseParser_new(parsers)} :
          /\ parsers' = made.pool
          /\ threads' = [threads EXCEPT ![t].pc = "parse", ![t].plan_parser = made.at,
                                        ![t].todo = PreOrder(PlanJson.v["Plan"], <<>>)]
  /\ UNCHANGED <<active_dbms, dbms_locks, dbms_lock, exited, cleanup>>
  /\ UNCHANGED parserVars

\* _build_operator_tree reaches the next raw operator: _extract_operator_id
DrawId(t) ==
  /\ threads[t].pc = "parse"
  /\ threads[t].todo # <<>>
  /\ \E drawn \in {ClickHouse_extract_operator_id(
                      ClickHouseNodeAt(PlanJson.v["Plan"], Head(threads[t].todo)),
                      parsers[threads[t].plan_parser].op_counter)} :
       /\ parsers' = [parsers EXCEPT ![threads[t].plan_parser] =
                        [op_counter |-> drawn.ctr,
                         used_by |-> @.used_by \cup {<<t, threads[t].served>>}]]
       /\ threads' = [threads EXCEPT ![t].todo = Tail(@), ![t].ids = Append(@, drawn.id)]
  /\ UNCHANGED <<active_dbms, dbms_locks, dbms_lock, exited, cleanup>>
  /\ UNCHANGED parserVars

\* parse_json_plan returns the plan and the handler builds the response
ReturnPlan(t) ==
  /\ threads[t].pc = "parse"
  /\ threads[t].todo = <<>>
  /\ threads' = [threads EXCEPT ![t].pc = "release", ![t].response = 200]
  /\ UNCHANGED <<active_dbms, dbms_locks, dbms_lock, exited, parsers, cleanup>>
  /\ UNCHANGED parserVars

\* the with block is left, by return or through the except clause
Release(t) ==
  /\ threads[t].pc = "release"
  /\ dbms_locks' = [dbms_locks EXCEPT !.owner[threads[t].query_lock] = "free"]
  /\ threads' = [threads EXCEPT ![t].pc = "idle"]
  /\ UNCHANGED <<active_dbms, dbms_lock, exited, parsers, cleanup>>
  /\ UNCHANGED parserVars

\* cleanup_dbms enters `with dbms_lock` and starts to iterate active_dbms.items()
CleanupStart ==
  /\ cleanup.pc = "serving"
  /\ dbms_lock = "free"
  /\ dbms_lock' = "cleanup"
  /\ cleanup' = [pc |-> "exiting", todo |-> active_dbms]
  /\ UNCHANGED <<active_dbms, dbms_locks, exited, threads, parsers>>
  /\ UNCHANGED parserVars

\* dbms.__exit__(None, None, None) for the next item
CleanupExit ==
  /\ cleanup.pc = "exiting"
  /\ \E name \in cleanup.todo :
       /\ exited' = exited \cup {name}
       /\ cleanup' = [cleanup EXCEPT !.todo = @ \ {name}]
  /\ UNCHANGED <<active_dbms, dbms_locks, dbms_lock, threads, parsers>>
  /\ UNCHANGED parserVars

\* active_dbms.clear(); dbms_locks.clear(); the with block is left
CleanupEnd ==
  /\ cleanup.pc = "exiting"
  /\ cleanup.todo = {}
  /\ active_dbms' = {}
  /\ dbms_locks' = [dbms_locks EXCEPT !.keys = {}]
  /\ dbms_lock' = "free"
  /\ cleanup' = [cleanup EXCEPT !.pc = "done"]
  /\ UNCHANGED <<exited, threads, parsers>>
  /\ UNCHANGED parserVars

NextServer ==
  \/ \E t \in Threads : Request(t)
  \/ \E t \in Threads : Lookup(t)
  \/ \E t \in Threads : Acquire(t)
  \/ \E t \in Threads : Execute(t)
  \/ \E t \in Threads : RetrievePlan(t)
  \/ \E t \in Threads : DrawId(t)
  \/ \E t \in Threads : ReturnPlan(t)
  \/ \E t \in Threads : Release(t)
  \/ CleanupStart
  \/ CleanupExit
  \/ CleanupEnd

Server == InitServer /\ [][NextServer]_vars

\* the operator ids of a canonical tree, in pre-order
RECURSIVE PreOrderIds(_)
PreOrderIds(node) ==
  LET Below[i \in 0..Len(node.children)] ==
        IF i = 0 THEN <<>> ELSE Below[i - 1] \o PreOrderIds(node.children[i])
  IN  <<node.operator.operator_id>> \o Below[Len(node.children)]

\* the ids of the tree that parse_json_plan returns for the EXPLAIN output when
\* a parser of its own parses it with no other parse running
AloneIds ==
  PreOrderIds(ClickHouse_parse_json_plan("q", PlanJson, 0, FALSE).plan.plan.children[1])

\* a plan retrieval that has drawn the ids of its tree
Parsing(t) == threads[t].pc \in {"parse", "release"} /\ threads[t].plan_parser # 0

\* C21: under every interleaving of plan requests no parser instance's id
\* counter is read or advanced by more than one parse, because every plan
\* retrieval constructs a parser instance of its own; the operator ids of each
\* tree are the ids the same parse gives when it runs alone.
C21_ParserPerRetrieval ==
  /\ \A p \in 1..Len(parsers) : Cardinality(parsers[p].used_by) <= 1
  /\ \A t \in Threads : \A u \in Threads \ {t} :
       Parsing(t) /\ Parsing(u) => threads[t].plan_parser # threads[u].plan_parser
  /\ \A t \in Threads :
       Parsing(t) =>
         /\ threads[t].ids = SubSeq(AloneIds, 1, Len(threads[t].ids))
         /\ threads[t].todo = <<>> => threads[t].ids = AloneIds

\* two plan retrievals on two ClickHouse instances are in the middle of their
\* parses at the same time, the one after its second id and the other after its
\* first, and the ids of a parse alone are 0, 7 and 1
C21_Witness ==
  /\ AloneIds = <<IntV(0), IntV(7), IntV(1)>>
  /\ \E t \in Threads : \E u \in Threads \ {t} :
       /\ threads[t].pc = "parse" /\ threads[u].pc = "parse"
       /\ Len(threads[t].ids) = 2 /\ Len(threads[u].ids) = 1
       /\ threads[t].dbms # threads[u].dbms

\* the thread is inside dbms._execute, dbms.retrieve_query_plan or optimizer.plan_query
Executing(t) == threads[t].pc \in {"execute", "parse"}

\* C29: the server serialises work per DBMS: at most one request thread at a
\* time executes _execute, retrieve_query_plan or plan_query on the same DBMS
\* instance, the executing thread holds the lock of that instance, requests on
\* different instances may execute at the same time, and a request that has
\* finished, with a response of success or after a raise, holds no per-DBMS lock.
C29_SerialisedPerDbms ==
  /\ \A t \in Threads : \A u \in Threads \ {t} :
       Executing(t) /\ Executing(u) => threads[t].dbms # threads[u].dbms
  /\ \A t \in Threads :
       Executing(t) => dbms_locks.owner[threads[t].dbms] = t
  /\ \A t \in Threads :
       threads[t].pc \in {"idle", "lookup", "acquire"} =>
         \A title \in Titles : dbms_locks.owner[title] # t

\* a request that raised has finished and the lock it held is taken by the
\* request of the other thread, which executes on the same instance
C29_Witness ==
  \E t \in Threads : \E u \in Threads \ {t} :
    /\ threads[t].pc = "idle" /\ threads[t].response = 500
    /\ Executing(u) /\ threads[u].dbms = threads[t].dbms

\* requests on two instances execute at the same time
C29_Concurrent ==
  \E t \in Threads : \E u \in Threads \ {t} :
    Executing(t) /\ Executing(u) /\ threads[t].dbms # threads[u].dbms

\* C30: a DBMS instance is never shut down while in use: cleanup_dbms does not
\* call __exit__ on an instance while a request is executing on it, and no
\* request executes on an instance after cleanup has shut it down.
C30_NeverShutDownInUse ==
  \A t \in Threads : Executing(t) => threads[t].dbms \notin exited

\* C30, its first half as a step: __exit__ is not called on an instance on which
\* a request is executing
C30_NoExitUnderRequest ==
  [][\A t \in Threads :
       Executing(t) => (threads[t].dbms \in exited' => threads[t].dbms \in exited)]_vars

\* C30, its second half as a step: no request starts to execute on an instance
\* that has been shut down
C30_NoRequestAfterExit ==
  [][\A t \in Threads :
       ~Executing(t) /\ Executing(t)' => threads'[t].dbms \notin exited]_vars

\* the join types and the join methods of the canonical vocabulary
JoinTypes ==
  {"inner", "leftouter", "rightouter", "fullouter", "leftsemi", "rightsemi",
   "leftanti", "rightanti", "cross", "semi", "anti"}

JoinMethods == {"hash", "merge", "nl", "index", "ternaryhash", "adaptive"}

\* the Join operator has a type and a method of the canonical vocabulary, or None
InVocabulary(op) ==
  /\ IsNone(op.type) \/ (IsStr(op.type) /\ op.type.v \in JoinTypes)
  /\ IsNone(op.method) \/ (IsStr(op.method) /\ op.method.v \in JoinMethods)

\* C22: after any ClickHouse or SQL Server parse every Join has a type of the
\* join types or None and a method of the join methods or None, whatever the
\* raw fields hold.
C22_JoinVocabulary ==
  (phase = "parsed" /\ result.err = "") =>
    \A n \in Canonical : n.operator.operator_type = "Join" => InVocabulary(n.operator)

\* C22 for the parses of SQL Server alone
C22_SQLServerJoins ==
  (SQLServerSuccess) =>
    \A n \in Canonical : n.operator.operator_type = "Join" => InVocabulary(n.operator)

EstimateKeys == <<"row_count", "estimated_rows", "rowCount", "rows_before_limit_at_least">>

ExactKeys == <<"rows", "rows_before_limit", "output_rows">>

\* the value under the first key of keys that the statistics hold; None when
\* they hold none of the keys
FirstPresent(stats, keys) ==
  IF FirstKey(keys, DOMAIN stats.v) = 0 THEN None
  ELSE stats.v[keys[FirstKey(keys, DOMAIN stats.v)]]

\* the raw operator at src has statistics whose first estimate key and first
\* exact key, where there is one, hold non-negative integers
CountsAreNaturals(src) ==
  /\ IsDict(ClickHouseStatistics(src))
  /\ \A keys \in {EstimateKeys, ExactKeys} :
       LET first == FirstPresent(ClickHouseStatistics(src), keys)
       IN  IsNone(first) \/ (IsInt(first) /\ first.v >= 0)

\* C27: _extract_cardinalities gives for each cardinality the integer under the
\* first candidate key that the statistics hold, for every non-negative count
\* and for 0 as well; exact is estimated only when the statistics hold no
\* exact key at all.
C27_FirstPresentKey ==
  (engine = "ClickHouse" /\ phase = "parsed") =>
    \A src \in RawPlaces :
      CountsAreNaturals(src) =>
        LET got   == ClickHouse_extract_cardinalities(ClickHouseNodeAt(ClickHouseTop, src))
            stats == ClickHouseStatistics(src)
        IN  /\ got.err = ""
            /\ got.estimated = FirstPresent(stats, EstimateKeys)
            /\ got.exact = IF RawHasExact(src) THEN FirstPresent(stats, ExactKeys)
                           ELSE got.estimated

\* C27 for the statistics that hold no count of 0
C27_WithoutZero ==
  (engine = "ClickHouse" /\ phase = "parsed") =>
    \A src \in RawPlaces :
      (/\ CountsAreNaturals(src)
       /\ \A key \in DOMAIN ClickHouseStatistics(src).v :
            ClickHouseStatistics(src).v[key] # IntV(0)) =>
        LET got   == ClickHouse_extract_cardinalities(ClickHouseNodeAt(ClickHouseTop, src))
            stats == ClickHouseStatistics(src)
        IN  /\ got.err = ""
            /\ got.estimated = FirstPresent(stats, EstimateKeys)
            /\ got.exact = IF RawHasExact(src) THEN FirstPresent(stats, ExactKeys)
                           ELSE got.estimated

\* create_empty_operator of the ClickHouse parser has returned
ClickHouseCreated ==
  phase = "returned" /\ payload.method = "create_empty_operator" /\ engine = "ClickHouse"

\* C28: create_empty_operator of the ClickHouse parser gives an ArrayUnnest
\* for the names "arrayjoin" and "array join" in any case of letters: the rule
\* of ArrayUnnest is reachable, no earlier rule of the cascade takes its names.
C28_ArrayJoinIsArrayUnnest ==
  ClickHouseCreated =>
    (lower(payload.args[1].v) \in {"arrayjoin", "array join"} =>
       result.plan.operator_type = "ArrayUnnest")

\* the rules after the rule of ArrayUnnest are reached: "Union" gives a
\* SetOperation of type "union", and "Filter", before it, a Select
C28_OtherRulesReached ==
  ClickHouseCreated =>
    /\ payload.args[1].v = "Union" =>
         (result.plan.operator_type = "SetOperation" /\ result.plan.type = StrV("union"))
    /\ payload.args[1].v = "Filter" => result.plan.operator_type = "Select"

\* the raw operator's own fields, what is nested below it left out: the dict
\* without its child keys, the RelOp without the RelOp elements below it, the row
IsOwnFields(snapshot, src) ==
  CASE engine = "ClickHouse" ->
         snapshot = ClickHouse_system_representation(ClickHouseNodeAt(ClickHouseTop, src), TRUE)
    [] engine = "SQLServerXml" ->
         /\ ~IsNone(snapshot)
         /\ snapshot.v.attrib = ElementAt(payload.v, src).attrib
         /\ XmlRelOpPaths(snapshot.v) = {<<>>}
    [] engine = "SQLServerRows" ->
         snapshot = DictV(SQLServer_info(RowMap, src[1]))

\* the tree without its snapshots
RECURSIVE WithoutSnapshots(_)
WithoutSnapshots(node) ==
  [node EXCEPT !.system_representation = None,
               !.children = [i \in 1..Len(node.children) |-> WithoutSnapshots(node.children[i])]]

\* the parse of the same payload by a fresh parser with the other flag
ParseOtherFlag ==
  IF engine = "ClickHouse" THEN ClickHouse_parse_json_plan(query, payload, 0, ~Include)
  ELSE SQLServer_parse_json_plan(query, payload, 0, ~Include)

\* C23: the flag include_system_representation controls the snapshot of every
\* node in every raw shape: with the flag false no node below the root has a
\* system_representation, with the flag true the snapshot holds the raw
\* operator's own fields without what is nested below it; the flag changes
\* nothing else of the tree.
C23_SnapshotFollowsFlag ==
  Success =>
    /\ \A n \in Canonical :
         IF Include THEN IsOwnFields(n.system_representation, n.src)
         ELSE IsNone(n.system_representation)
    /\ ParseOtherFlag.err = ""
    /\ WithoutSnapshots(ParseOtherFlag.plan.plan) = WithoutSnapshots(Root)

\* C23 for ClickHouse
C23_ClickHouseSnapshots == engine = "ClickHouse" => C23_SnapshotFollowsFlag

\* the flag changes nothing but the snapshots, in every raw shape
C23_NothingElseChanges ==
  Success =>
    /\ ParseOtherFlag.err = ""
    /\ WithoutSnapshots(ParseOtherFlag.plan.plan) = WithoutSnapshots(Root)

\* the snapshot of a RelOp without RelOp elements below it, and of a row when
\* the flag is true
C23_LeafRelOpsAndFlaggedRows ==
  Success =>
    \A n \in Canonical :
      /\ (engine = "SQLServerXml" /\ RawChildren(n.src) = <<>>) =>
           IF Include THEN IsOwnFields(n.system_representation, n.src)
           ELSE IsNone(n.system_representation)
      /\ (engine = "SQLServerXml" /\ ~Include) => IsNone(n.system_representation)
      /\ (engine = "SQLServerRows" /\ Include) => IsOwnFields(n.system_representation, n.src)

\* place p comes before place q in the pre-order of the raw tree
Before(p, q) ==
  \/ Len(p) < Len(q) /\ SubSeq(q, 1, Len(p)) = p
  \/ \E i \in 1..Len(p) :
       /\ i <= Len(q)
       /\ SubSeq(p, 1, i - 1) = SubSeq(q, 1, i - 1)
       /\ p[i] < q[i]

\* the raw operators below and including the engine's top-level operator
Visited == {p \in RawPlaces : p = TopPlace \/ Before(TopPlace, p)}

\* k for the k-th raw operator in pre-order, k from 0
PreOrderIndex(src) == Cardinality({p \in Visited : Before(p, src)})

\* a parse of a payload none of whose raw operators has an id of its own,
\* where the ids come from op_counter
CounterAssigned ==
  /\ Success
  /\ engine \in {"ClickHouse", "SQLServerXml"}
  /\ \A src \in Visited : ~OwnId(src)

\* C24: the ids that come from the counter follow the pre-order of the raw
\* tree: a fresh parser that parses a raw tree without ids of its own advances
\* the counter once for each raw operator it visits, never more often than
\* there are raw operators, the k-th raw operator in
\* pre-order (k from 0) has the id k, and the ids of the canonical nodes grow
\* strictly along the pre-order of the canonical tree; with elided Expression
\* wrappers and with Limit nodes over a Sort or over another operator as well.
C24_IdsFollowPreOrder ==
  CounterAssigned =>
    /\ parser.op_counter <= Cardinality(Visited)
    /\ \A n \in Canonical : n.operator.operator_id = IntV(PreOrderIndex(n.src))
    /\ \A n \in Canonical : \A m \in Canonical :
         Before(n.src, m.src) => n.operator.operator_id.v < m.operator.operator_id.v

\* C24 for the trees in which no Limit node stands over an operator that is no
\* Sort, and for the documents whose outermost element is no RelOp
C24_WithoutLimitOverOther ==
  (/\ CounterAssigned
   /\ engine = "SQLServerXml" => payload.v.tag # "RelOp"
   /\ engine = "ClickHouse" =>
        \A src \in Visited :
          (IsLimit(src) /\ RawChildren(src) # <<>>) =>
             BuiltFrom(RawChildren(src)[1], 0).operator.operator_type = "Sort") =>
    /\ parser.op_counter <= Cardinality(Visited)
    /\ \A n \in Canonical : n.operator.operator_id = IntV(PreOrderIndex(n.src))
    /\ \A n \in Canonical : \A m \in Canonical :
         Before(n.src, m.src) => n.operator.operator_id.v < m.operator.operator_id.v

\* the ids of the canonical nodes grow strictly along the pre-order in every
\* parse whose ids come from the counter
C24_IdsGrow ==
  CounterAssigned =>
    \A n \in Canonical : \A m \in Canonical :
      Before(n.src, m.src) => n.operator.operator_id.v < m.operator.operator_id.v

\* C25: every parse of a finite payload terminates, it returns a QueryPlan or
\* raises, with a recursion whose depth is bounded by the depth of the raw plan:
\* no parse runs into the recursion limit of the interpreter, whatever the
\* NodeId and Parent values of the rows are, self-references and cycles included.
C25_RecursionIsBounded ==
  phase \in {"parsed", "parsed again, same parser", "parsed again, fresh parser"} =>
    result.err # "RecursionError"

\* C25 for the payloads other than rows, and for the rows in which the Parent
\* of every row is 0 or the NodeId of an earlier row
C25_TreesTerminate ==
  (/\ phase = "parsed"
   /\ engine = "SQLServerRows" =>
        \A k \in 1..Len(RowMap) :
          IsInt(RowMap[k].info["Parent"]) /\ RowMap[k].info["Parent"].v < RowMap[k].nid) =>
    result.err # "RecursionError"

\* the raw operator at src is a transparent wrapper that the parser elides: an
\* Expression node of ClickHouse that has children, a Parallelism row with one
\* child row
IsElided(src) ==
  CASE engine = "ClickHouse"    -> IsWrapper(src) /\ RawChildren(src) # <<>>
    [] engine = "SQLServerRows" -> IsSingleChildWrapper(src)
    [] engine = "SQLServerXml"  -> FALSE

\* the raw operator at src is a Limit that is merged into the Sort below it
IsMerged(src) ==
  /\ engine = "ClickHouse"
  /\ IsLimit(src)
  /\ RawChildren(src) # <<>>
  /\ BuiltFrom(RawChildren(src)[1], 0).operator.operator_type = "Sort"

\* C26: normalisation loses no raw operator: every raw operator of the payload
\* that is neither an elided wrapper nor a Limit merged into a Sort is
\* represented by exactly one node of the canonical tree; so are the operators
\* below an Expression wrapper or a Limit with more than one child, the rows
\* whose Parent is the NodeId of no row and the further rows with Parent 0.
C26_NoRawOperatorLost ==
  Success =>
    \A src \in RawPlaces :
      (~IsElided(src) /\ ~IsMerged(src)) => Cardinality({n \in Canonical : n.src = src}) = 1

\* C26 for the payloads in which no elided wrapper and no merged Limit has a
\* second child, the outermost element of a document is no RelOp, and every
\* row but the first plan row has the NodeId of a plan row as its Parent
C26_SingleChildWrappers ==
  (/\ Success
   /\ \A src \in RawPlaces : (IsElided(src) \/ IsMerged(src)) => Len(RawChildren(src)) = 1
   /\ engine = "SQLServerXml" => payload.v.tag # "RelOp"
   /\ engine = "SQLServerRows" =>
        \A k \in 2..Len(RowMap) : \E j \in 1..Len(RowMap) :
          RowMap[k].info["Parent"] = IntV(RowMap[j].nid)) =>
    \A src \in RawPlaces :
      (~IsElided(src) /\ ~IsMerged(src)) => Cardinality({n \in Canonical : n.src = src}) = 1

\* no raw operator stands twice in the canonical tree
C26_AtMostOnce ==
  Success =>
    \A src \in RawPlaces : Cardinality({n \in Canonical : n.src = src}) <= 1

====
